---- MODULE Spec2Model ----
(***************************************************************************)
(* linctl: the filter construction pipeline of `issue list`, `issue       *)
(* search` and `project list`, together with the time expression         *)
(* resolver utils.ParseTimeExpression they call, and the sort switch of   *)
(* the six list commands.                                                  *)
(*                                                                         *)
(* Strings that are only compared for equality (assignee, state, team,    *)
(* sort) are TLA+ strings.  A time expression is parsed, so it is a       *)
(* sequence of one-character strings.  A timestamp string is the tuple    *)
(* <<year, month, day, second of day>> of the fields it prints; the empty *)
(* string "" that ParseTimeExpression returns for "no boundary" is the    *)
(* empty tuple <<>>.                                                       *)
(***************************************************************************)
EXTENDS Integers, Sequences, FiniteSets, TLC

VARIABLES
    pc,        \* position of the running command: idle, auth, build, sort, query, done, exit
    cmdName,   \* the list command that runs
    flags,     \* the flag values of the invocation
    apiKey,    \* the stored credential ("" = none)
    now,       \* the wall clock value read by the resolver
    filter,    \* the filter map that filter construction returned
    orderBy,   \* the normalized sort order
    apiCalls,  \* the API requests issued by this invocation, in order
    exitCode,  \* -1 while running, then the process exit status
    errMsg,    \* the kind of error reported by output.Error ("" = none)
    res,       \* what ParseTimeExpression returned to this invocation
    authLog,   \* the calls of package auth made so far, with what each returned
    local,     \* the local variables of the running write or attachment command
    disk,      \* the directories and files the running command has created
    inv,       \* the concurrent invocations of buildIssueFilter
    heap       \* the maps allocated by those invocations, by address

listVars == <<pc, cmdName, flags, now, filter, orderBy, apiCalls, exitCode, errMsg, res>>

authVars == <<authLog>>

cmdVars == <<local, disk>>

concVars == <<inv, heap>>

vars == <<listVars, apiKey, authVars, cmdVars, concVars>>

----------------------------------------------------------------------------
(* Calendar arithmetic.                                                    *)

Min(a, b) == IF a < b THEN a ELSE b

IsLeap(y) == (y % 4 = 0 /\ y % 100 # 0) \/ y % 400 = 0

DaysIn(y, m) ==
    IF m = 2 THEN (IF IsLeap(y) THEN 29 ELSE 28)
    ELSE IF m \in {4, 6, 9, 11} THEN 30 ELSE 31

\* Days since 1970-01-01 of a civil date (proleptic Gregorian).
DaysFromCivil(y, m, d) ==
    LET yy  == IF m <= 2 THEN y - 1 ELSE y
        era == yy \div 400
        yoe == yy - era * 400
        mp  == IF m > 2 THEN m - 3 ELSE m + 9
        doy == (153 * mp + 2) \div 5 + d - 1
        doe == yoe * 365 + yoe \div 4 - yoe \div 100 + doy
    IN  era * 146097 + doe - 719468

\* The civil date <<y, m, d>> of a day number.
CivilFromDays(z0) ==
    LET z   == z0 + 719468
        era == z \div 146097
        doe == z - era * 146097
        yoe == (doe - doe \div 1460 + doe \div 36524 - doe \div 146096) \div 365
        doy == doe - (365 * yoe + yoe \div 4 - yoe \div 100)
        mp  == (5 * doy + 2) \div 153
        d   == doy - (153 * mp + 2) \div 5 + 1
        m   == IF mp < 10 THEN mp + 3 ELSE mp - 9
        y   == yoe + era * 400
    IN  <<IF m <= 2 THEN y + 1 ELSE y, m, d>>

\* A variant that moves forward in time.
SubSeconds_forward(t, n) ==
    LET s    == t[4] + n
        days == DaysFromCivil(t[1], t[2], t[3]) + (s \div 86400)
        c    == CivilFromDays(days)
    IN  <<c[1], c[2], c[3], s % 86400>>

\* t minus n seconds.
SubSeconds(t, n) ==
    LET s    == t[4] - n
        days == DaysFromCivil(t[1], t[2], t[3]) + (s \div 86400)
        c    == CivilFromDays(days)
    IN  <<c[1], c[2], c[3], s % 86400>>

\* A variant that lets a day past the end of the target month roll over into
\* the next month (February 31 becomes March 3).
SubMonths_rollover(t, n) ==
    LET idx == t[1] * 12 + (t[2] - 1) - n
        y   == idx \div 12
        m   == (idx % 12) + 1
        c   == CivilFromDays(DaysFromCivil(y, m, 1) + t[3] - 1)
    IN  <<c[1], c[2], c[3], t[4]>>

\* t minus n calendar months; the day is clamped to the target month.
SubMonths(t, n) ==
    LET idx == t[1] * 12 + (t[2] - 1) - n
        y   == idx \div 12
        m   == (idx % 12) + 1
    IN  <<y, m, Min(t[3], DaysIn(y, m)), t[4]>>

\* t minus n calendar years; February 29 is clamped to February 28.
SubYears(t, n) ==
    <<t[1] - n, t[2], Min(t[3], DaysIn(t[1] - n, t[2])), t[4]>>

\* t1 <= t2 on timestamps.
TimeLeq(t1, t2) ==
    LET a == DaysFromCivil(t1[1], t1[2], t1[3])
        b == DaysFromCivil(t2[1], t2[2], t2[3])
    IN  a < b \/ (a = b /\ t1[4] <= t2[4])

----------------------------------------------------------------------------
(* utils.ParseTimeExpression: the time expression resolver.                *)

Digits == <<"0", "1", "2", "3", "4", "5", "6", "7", "8", "9">>

IsDigit(c) == \E i \in 1..10 : Digits[i] = c

DigitVal(c) == (CHOOSE i \in 1..10 : Digits[i] = c) - 1

AllDigits(s) == s # <<>> /\ \A i \in 1..Len(s) : IsDigit(s[i])

RECURSIVE ParseNat(_)
ParseNat(s) ==
    IF s = <<>> THEN 0
    ELSE ParseNat(SubSeq(s, 1, Len(s) - 1)) * 10 + DigitVal(s[Len(s)])

AllTimeToken == <<"a", "l", "l", "_", "t", "i", "m", "e">>

AgoSuffix == <<"_", "a", "g", "o">>

\* The unit spellings and what one unit is: a number of seconds, or a
\* calendar month / year.
UnitTable == {
    [name |-> <<"m", "i", "n", "u", "t", "e">>,      kind |-> "sec",   n |-> 60],
    [name |-> <<"m", "i", "n", "u", "t", "e", "s">>, kind |-> "sec",   n |-> 60],
    [name |-> <<"h", "o", "u", "r">>,                kind |-> "sec",   n |-> 3600],
    [name |-> <<"h", "o", "u", "r", "s">>,           kind |-> "sec",   n |-> 3600],
    [name |-> <<"d", "a", "y">>,                     kind |-> "sec",   n |-> 86400],
    [name |-> <<"d", "a", "y", "s">>,                kind |-> "sec",   n |-> 86400],
    [name |-> <<"w", "e", "e", "k">>,                kind |-> "sec",   n |-> 604800],
    [name |-> <<"w", "e", "e", "k", "s">>,           kind |-> "sec",   n |-> 604800],
    [name |-> <<"m", "o", "n", "t", "h">>,           kind |-> "month", n |-> 1],
    [name |-> <<"m", "o", "n", "t", "h", "s">>,      kind |-> "month", n |-> 1],
    [name |-> <<"y", "e", "a", "r">>,                kind |-> "year",  n |-> 1],
    [name |-> <<"y", "e", "a", "r", "s">>,           kind |-> "year",  n |-> 1] }

IsUnit(u) == \E r \in UnitTable : r.name = u

UnitOf(u) == CHOOSE r \in UnitTable : r.name = u

\* Index of the first "_" of s, 0 when there is none.
FirstUnderscore(s) ==
    IF \E i \in 1..Len(s) : s[i] = "_"
    THEN CHOOSE i \in 1..Len(s) : s[i] = "_" /\ \A j \in 1..(i - 1) : s[j] # "_"
    ELSE 0

\* s has the form N_unit_ago.
IsRelative(s) ==
    LET k == FirstUnderscore(s)
    IN  /\ k > 1
        /\ AllDigits(SubSeq(s, 1, k - 1))
        /\ Len(s) >= k + 5
        /\ SubSeq(s, Len(s) - 3, Len(s)) = AgoSuffix
        /\ IsUnit(SubSeq(s, k + 1, Len(s) - 4))

\* A variant that takes a month for 30 days and a year for 365.
RelativeBoundary_fixedmonth(s, t) ==
    LET k == FirstUnderscore(s)
        n == ParseNat(SubSeq(s, 1, k - 1))
        u == UnitOf(SubSeq(s, k + 1, Len(s) - 4))
    IN  IF u.kind = "sec" THEN SubSeconds(t, n * u.n)
        ELSE IF u.kind = "month" THEN SubSeconds(t, n * 30 * 86400)
        ELSE SubSeconds(t, n * 365 * 86400)

RelativeBoundary(s, t) ==
    LET k == FirstUnderscore(s)
        n == ParseNat(SubSeq(s, 1, k - 1))
        u == UnitOf(SubSeq(s, k + 1, Len(s) - 4))
    IN  IF u.kind = "sec" THEN SubSeconds(t, n * u.n)
        ELSE IF u.kind = "month" THEN SubMonths(t, n)
        ELSE SubYears(t, n)

\* s has the form YYYY-MM-DD and names a day of the calendar.
IsISODate(s) ==
    /\ Len(s) = 10
    /\ s[5] = "-" /\ s[8] = "-"
    /\ AllDigits(SubSeq(s, 1, 4)) /\ AllDigits(SubSeq(s, 6, 7)) /\ AllDigits(SubSeq(s, 9, 10))
    /\ LET y == ParseNat(SubSeq(s, 1, 4))
           m == ParseNat(SubSeq(s, 6, 7))
           d == ParseNat(SubSeq(s, 9, 10))
       IN  m \in 1..12 /\ d \in 1..DaysIn(y, m)

ISODateOf(s) ==
    <<ParseNat(SubSeq(s, 1, 4)), ParseNat(SubSeq(s, 6, 7)), ParseNat(SubSeq(s, 9, 10)), 0>>

\* s has the form HH:MM:SS.
IsClock(s) ==
    /\ Len(s) = 8
    /\ s[3] = ":" /\ s[6] = ":"
    /\ AllDigits(SubSeq(s, 1, 2)) /\ AllDigits(SubSeq(s, 4, 5)) /\ AllDigits(SubSeq(s, 7, 8))
    /\ ParseNat(SubSeq(s, 1, 2)) < 24
    /\ ParseNat(SubSeq(s, 4, 5)) < 60
    /\ ParseNat(SubSeq(s, 7, 8)) < 60

ClockOf(s) ==
    ParseNat(SubSeq(s, 1, 2)) * 3600 + ParseNat(SubSeq(s, 4, 5)) * 60 + ParseNat(SubSeq(s, 7, 8))

\* s has the form YYYY-MM-DDTHH:MM:SS, with "Z" or nothing after it (UTC).
IsISODateTime(s) ==
    /\ Len(s) \in {19, 20}
    /\ IsISODate(SubSeq(s, 1, 10))
    /\ s[11] = "T"
    /\ IsClock(SubSeq(s, 12, 19))
    /\ Len(s) = 20 => s[20] = "Z"

ISODateTimeOf(s) ==
    LET d == ISODateOf(SubSeq(s, 1, 10))
    IN  <<d[1], d[2], d[3], ClockOf(SubSeq(s, 12, 19))>>

\* The outcomes of resolution.
UseDefault == [kind |-> "UseDefault"]

Unbounded == [kind |-> "Unbounded"]

At(t) == [kind |-> "At", t |-> t]

\* A variant of the error that does not say which string was rejected.
InvalidTimeExpression_anonymous(s) == [kind |-> "InvalidTimeExpression", expr |-> <<>>]

InvalidTimeExpression(s) == [kind |-> "InvalidTimeExpression", expr |-> s]

\* resolve(expression) at wall clock time t, in the order of precedence:
\* empty, all_time, N_unit_ago, ISO-8601 date or date-time, error.
resolve(s, t) ==
    IF s = <<>> THEN UseDefault
    ELSE IF s = AllTimeToken THEN Unbounded
    ELSE IF IsRelative(s) THEN At(RelativeBoundary(s, t))
    ELSE IF IsISODate(s) THEN At(ISODateOf(s))
    ELSE IF IsISODateTime(s) THEN At(ISODateTimeOf(s))
    ELSE InvalidTimeExpression(s)

DefaultMonths == 6

\* The default boundary of issues and projects: six months before t.
DefaultBoundary(t) == SubMonths(t, DefaultMonths)

NoError == [kind |-> "nil"]

\* ParseTimeExpression(expr) (string, error): the callers pass no default
\* and only test the returned string against "", so the default boundary is
\* substituted here.  "" is <<>>.
ParseTimeExpression(s, t) ==
    LET r == resolve(s, t)
    IN  IF r.kind = "InvalidTimeExpression" THEN [val |-> <<>>, err |-> r]
        ELSE IF r.kind = "UseDefault" THEN [val |-> DefaultBoundary(t), err |-> NoError]
        ELSE IF r.kind = "Unbounded" THEN [val |-> <<>>, err |-> NoError]
        ELSE [val |-> r.t, err |-> NoError]

----------------------------------------------------------------------------
(* The flag values an invocation may carry.                                *)

Commands ==
    {"issue list", "issue search", "project list", "comment list", "team list", "user list"}

\* The commands that send a filter with their query.
FilterCommands == {"issue list", "issue search", "project list"}

Assignees == {"", "me", "Me", "unassigned", "ann@x.io"}

StateNames == {"", "Done"}

TeamKeys == {"", "ENG"}

Priorities == {-2, -1, 0, 2, 7}

SortTokens == {"", "linear", "created", "createdAt", "updated", "updatedAt", "priority"}

Queries == {" ", "login bug"}

TimeExprs == {
    <<>>,
    AllTimeToken,
    <<"2", "_", "w", "e", "e", "k", "s", "_", "a", "g", "o">>,
    <<"1", "_", "m", "o", "n", "t", "h", "_", "a", "g", "o">>,
    <<"2", "0", "2", "5", "-", "0", "7", "-", "0", "1">>,
    <<"n", "o", "t", "_", "a", "_", "t", "i", "m", "e">> }

\* The wall clock values an invocation may read.
Clocks ==
    { <<2025, 8, 31, 43200>>, <<2024, 3, 31, 30>>, <<2025, 1, 10, 0>>, <<2025, 3, 31, 86399>> }

ApiKeys == {"", "lin_api_k1"}

\* The team lookup of the API: the ID of a team key.
TeamID(key) == "id-of-" \o key

IssueFlags ==
    [assignee : Assignees, state : StateNames, team : TeamKeys,
     priority : Priorities, includeCompleted : BOOLEAN,
     newerThan : TimeExprs, sort : SortTokens, query : Queries]

\* project list defines no --assignee and no --priority flag and takes no query.
ProjectFlags ==
    [assignee : {""}, state : StateNames, team : TeamKeys,
     priority : {-1}, includeCompleted : BOOLEAN,
     newerThan : TimeExprs, sort : SortTokens, query : {""}]

NoFlags ==
    [assignee |-> "", state |-> "", team |-> "", priority |-> -1,
     includeCompleted |-> FALSE, newerThan |-> <<>>, sort |-> "", query |-> ""]

\* The largest N of the expressions N_unit_ago that are tried with every unit.
MaxN == 3

RelativeNs == (0..MaxN) \cup {12}

\* The decimal digits of n.
RECURSIVE NatToChars(_)
NatToChars(n) ==
    IF n < 10 THEN <<Digits[n + 1]>>
    ELSE NatToChars(n \div 10) \o <<Digits[(n % 10) + 1]>>

\* The expression N_unit_ago.
RelExpr(n, unit) == NatToChars(n) \o <<"_">> \o unit \o AgoSuffix

RelativeExprs == {RelExpr(n, u.name) : n \in RelativeNs, u \in UnitTable}

\* Expressions of none of the recognized forms.
InvalidExprs == {
    <<"n", "o", "t", "_", "a", "_", "t", "i", "m", "e">>,
    <<"3", "_", "e", "o", "n", "s", "_", "a", "g", "o">>,
    <<"_", "d", "a", "y", "s", "_", "a", "g", "o">>,
    <<"2", "_", "d", "a", "y", "s">>,
    <<"2", "0", "2", "5", "-", "1", "3", "-", "0", "1">>,
    <<"y", "e", "s", "t", "e", "r", "d", "a", "y">> }

ISODateTimeExpr ==
    <<"2", "0", "2", "5", "-", "0", "7", "-", "0", "1", "T",
      "1", "5", ":", "3", "0", ":", "0", "0", "Z">>

\* More values of --newer-than, each tried with the other flags left alone.
MoreTimeFlags ==
    {[NoFlags EXCEPT !.newerThan = e, !.sort = "linear", !.query = "login bug"] :
        e \in RelativeExprs \cup InvalidExprs \cup {ISODateTimeExpr}}

\* comment list, team list and user list: only --sort matters here.
SortOnlyFlags == {[NoFlags EXCEPT !.sort = st] : st \in SortTokens}

FlagsOf(c) ==
    IF c = "project list" THEN ProjectFlags \cup MoreTimeFlags
    ELSE IF c \in {"issue list", "issue search"} THEN IssueFlags \cup MoreTimeFlags
    ELSE SortOnlyFlags

----------------------------------------------------------------------------
(* Filter maps.                                                            *)

EmptyMap == <<>>

Put(m, k, v) == (k :> v) @@ m

Has(m, k) == k \in DOMAIN m

\* Variants of the assignee criterion: one that folds the case of 'me', one
\* that treats 'unassigned' as "no assignee".
IssueAssignee_foldcase(f, assignee) ==
    IF assignee # ""
    THEN IF assignee \in {"me", "Me"}
         THEN Put(f, "assignee", [isMe |-> [eq |-> TRUE]])
         ELSE Put(f, "assignee", [email |-> [eq |-> assignee]])
    ELSE f

IssueAssignee_absent(f, assignee) ==
    IF assignee # ""
    THEN IF assignee = "me"
         THEN Put(f, "assignee", [isMe |-> [eq |-> TRUE]])
         ELSE IF assignee = "unassigned"
              THEN Put(f, "assignee", [null |-> TRUE])
              ELSE Put(f, "assignee", [email |-> [eq |-> assignee]])
    ELSE f

\* buildIssueFilter, the assignee criterion.
IssueAssignee(f, assignee) ==
    IF assignee # ""
    THEN IF assignee = "me"
         THEN Put(f, "assignee", [isMe |-> [eq |-> TRUE]])
         ELSE Put(f, "assignee", [email |-> [eq |-> assignee]])
    ELSE f

\* A variant of the exclusion list that forgets 'canceled'.
ExcludedTypes_short == <<"completed">>

ExcludedTypes == <<"completed", "canceled">>

\* Variants of the state criterion: one that tests --include-completed
\* before --state, one that ignores --include-completed.
IssueState_flagfirst(f, state, includeCompleted) ==
    IF ~includeCompleted
    THEN Put(f, "state", [type |-> [nin |-> <<"completed", "canceled">>]])
    ELSE IF state # ""
         THEN Put(f, "state", [name |-> [eq |-> state]])
         ELSE f

IssueState_always(f, state, includeCompleted) ==
    IF state # ""
    THEN Put(f, "state", [name |-> [eq |-> state]])
    ELSE Put(f, "state", [type |-> [nin |-> <<"completed", "canceled">>]])

\* buildIssueFilter, the state criterion.
IssueState(f, state, includeCompleted) ==
    IF state # ""
    THEN Put(f, "state", [name |-> [eq |-> state]])
    ELSE IF ~includeCompleted
         THEN Put(f, "state", [type |-> [nin |-> ExcludedTypes]])
         ELSE f

\* buildIssueFilter, the team criterion.
IssueTeam(f, team) ==
    IF team # "" THEN Put(f, "team", [key |-> [eq |-> team]]) ELSE f

\* A variant of the priority criterion that takes 0 ("None") for unset too.
IssuePriority_positive(f, priority) ==
    IF priority > 0 THEN Put(f, "priority", [eq |-> priority]) ELSE f

\* buildIssueFilter, the priority criterion.
IssuePriority(f, priority) ==
    IF priority # -1 THEN Put(f, "priority", [eq |-> priority]) ELSE f

\* Variants of the creation-time criterion: one that skips the predicate for
\* an empty expression, one that emits the predicate even for "", one that
\* swallows the resolver's error.
CreatedAtCriterion_nodefault(f, newerThan, t) ==
    LET r == ParseTimeExpression(newerThan, t)
    IN  IF r.err # NoError THEN [filter |-> f, err |-> r.err, res |-> r]
        ELSE IF r.val # <<>> /\ newerThan # <<>>
             THEN [filter |-> Put(f, "createdAt", [gte |-> r.val]), err |-> NoError, res |-> r]
             ELSE [filter |-> f, err |-> NoError, res |-> r]

CreatedAtCriterion_always(f, newerThan, t) ==
    LET r == ParseTimeExpression(newerThan, t)
    IN  IF r.err # NoError THEN [filter |-> f, err |-> r.err, res |-> r]
        ELSE [filter |-> Put(f, "createdAt", [gte |-> r.val]), err |-> NoError, res |-> r]

CreatedAtCriterion_swallow(f, newerThan, t) ==
    LET r == ParseTimeExpression(newerThan, t)
    IN  IF r.val # <<>>
        THEN [filter |-> Put(f, "createdAt", [gte |-> r.val]), err |-> NoError, res |-> r]
        ELSE [filter |-> f, err |-> NoError, res |-> r]

\* What the caller does with the pair r that ParseTimeExpression returned:
\* the error ends the command, a non-empty string becomes createdAt gte.
WithBoundary(f, r) ==
    IF r.err # NoError THEN [filter |-> f, err |-> r.err, res |-> r]
    ELSE IF r.val # <<>>
         THEN [filter |-> Put(f, "createdAt", [gte |-> r.val]), err |-> NoError, res |-> r]
         ELSE [filter |-> f, err |-> NoError, res |-> r]

\* A variant of the creation-time criterion in which the caller supplies its
\* own default window (one month) for an empty expression.
CreatedAtCriterion_callerdefault(f, newerThan, t) ==
    LET r == ParseTimeExpression(newerThan, t)
    IN  IF r.err # NoError THEN [filter |-> f, err |-> r.err, res |-> r]
        ELSE IF newerThan = <<>>
             THEN [filter |-> Put(f, "createdAt", [gte |-> SubMonths(t, 1)]),
                   err |-> NoError, res |-> r]
        ELSE IF r.val # <<>>
             THEN [filter |-> Put(f, "createdAt", [gte |-> r.val]), err |-> NoError, res |-> r]
             ELSE [filter |-> f, err |-> NoError, res |-> r]

\* The creation-time criterion shared by buildIssueFilter and project list:
\* the filter, or the resolver's error.
CreatedAtCriterion(f, newerThan, t) ==
    WithBoundary(f, ParseTimeExpression(newerThan, t))

\* Variants of buildIssueFilter: one that leaves the default exclusion out
\* when the assignee is 'me', one that ignores --team when an assignee is
\* given.
buildIssueFilter_skipstate(fl, t) ==
    LET f1 == IssueAssignee(EmptyMap, fl.assignee)
        f2 == IF fl.assignee = "me" /\ fl.state = "" THEN f1
              ELSE IssueState(f1, fl.state, fl.includeCompleted)
        f3 == IssueTeam(f2, fl.team)
        f4 == IssuePriority(f3, fl.priority)
    IN  CreatedAtCriterion(f4, fl.newerThan, t)

buildIssueFilter_coupled(fl, t) ==
    LET f1 == IssueAssignee(EmptyMap, fl.assignee)
        f2 == IssueState(f1, fl.state, fl.includeCompleted)
        f3 == IF fl.assignee = "" THEN IssueTeam(f2, fl.team) ELSE f2
        f4 == IssuePriority(f3, fl.priority)
    IN  CreatedAtCriterion(f4, fl.newerThan, t)

\* buildIssueFilter(cmd) with the wall clock at t.
buildIssueFilter(fl, t) ==
    LET f1 == IssueAssignee(EmptyMap, fl.assignee)
        f2 == IssueState(f1, fl.state, fl.includeCompleted)
        f3 == IssueTeam(f2, fl.team)
        f4 == IssuePriority(f3, fl.priority)
    IN  CreatedAtCriterion(f4, fl.newerThan, t)

\* project list, the state criterion.
ProjectState(f, state, includeCompleted) ==
    IF state # ""
    THEN Put(f, "state", [eq |-> state])
    ELSE IF ~includeCompleted
         THEN Put(f, "state", [nin |-> ExcludedTypes])
         ELSE f

\* project list, the team criterion, once GetTeam has returned the team.
ProjectTeam(f, teamKey) ==
    IF teamKey # "" THEN Put(f, "team", [id |-> TeamID(teamKey)]) ELSE f

\* project list's filter, given that GetTeam (if called) succeeded.
buildProjectFilter(fl, t) ==
    LET f1 == ProjectTeam(EmptyMap, fl.team)
        f2 == ProjectState(f1, fl.state, fl.includeCompleted)
    IN  CreatedAtCriterion(f2, fl.newerThan, t)

\* A variant of the sort switch whose default case falls back to 'linear'.
NormalizeSort_fallback(sortBy) ==
    IF sortBy # ""
    THEN IF sortBy \in {"created", "createdAt"} THEN [orderBy |-> "createdAt", ok |-> TRUE]
         ELSE IF sortBy \in {"updated", "updatedAt"} THEN [orderBy |-> "updatedAt", ok |-> TRUE]
         ELSE [orderBy |-> "", ok |-> TRUE]
    ELSE [orderBy |-> "", ok |-> TRUE]

\* The sort switch of the list commands: the order, or the error.
NormalizeSort(sortBy) ==
    IF sortBy # ""
    THEN IF sortBy \in {"created", "createdAt"} THEN [orderBy |-> "createdAt", ok |-> TRUE]
         ELSE IF sortBy \in {"updated", "updatedAt"} THEN [orderBy |-> "updatedAt", ok |-> TRUE]
         ELSE IF sortBy = "linear" THEN [orderBy |-> "", ok |-> TRUE]
         ELSE [orderBy |-> "", ok |-> FALSE]
    ELSE [orderBy |-> "", ok |-> TRUE]

\* The same switch as written in issue search.
SortOfIssueSearch(sortBy) ==
    IF sortBy # ""
    THEN IF sortBy \in {"created", "createdAt"} THEN [orderBy |-> "createdAt", ok |-> TRUE]
         ELSE IF sortBy \in {"updated", "updatedAt"} THEN [orderBy |-> "updatedAt", ok |-> TRUE]
         ELSE IF sortBy = "linear" THEN [orderBy |-> "", ok |-> TRUE]
         ELSE [orderBy |-> "", ok |-> FALSE]
    ELSE [orderBy |-> "", ok |-> TRUE]

\* The same switch as written in project list.
SortOfProjectList(sortBy) ==
    IF sortBy # ""
    THEN IF sortBy \in {"created", "createdAt"} THEN [orderBy |-> "createdAt", ok |-> TRUE]
         ELSE IF sortBy \in {"updated", "updatedAt"} THEN [orderBy |-> "updatedAt", ok |-> TRUE]
         ELSE IF sortBy = "linear" THEN [orderBy |-> "", ok |-> TRUE]
         ELSE [orderBy |-> "", ok |-> FALSE]
    ELSE [orderBy |-> "", ok |-> TRUE]

\* The same switch as written in comment list.
SortOfCommentList(sortBy) ==
    IF sortBy # ""
    THEN IF sortBy \in {"created", "createdAt"} THEN [orderBy |-> "createdAt", ok |-> TRUE]
         ELSE IF sortBy \in {"updated", "updatedAt"} THEN [orderBy |-> "updatedAt", ok |-> TRUE]
         ELSE IF sortBy = "linear" THEN [orderBy |-> "", ok |-> TRUE]
         ELSE [orderBy |-> "", ok |-> FALSE]
    ELSE [orderBy |-> "", ok |-> TRUE]

\* A variant of team list's switch that sorts 'created' by update time.
SortOfTeamList_swapped(sortBy) ==
    IF sortBy # ""
    THEN IF sortBy \in {"created", "createdAt"} THEN [orderBy |-> "updatedAt", ok |-> TRUE]
         ELSE IF sortBy \in {"updated", "updatedAt"} THEN [orderBy |-> "updatedAt", ok |-> TRUE]
         ELSE IF sortBy = "linear" THEN [orderBy |-> "", ok |-> TRUE]
         ELSE [orderBy |-> "", ok |-> FALSE]
    ELSE [orderBy |-> "", ok |-> TRUE]

\* The same switch as written in team list.
SortOfTeamList(sortBy) ==
    IF sortBy # ""
    THEN IF sortBy \in {"created", "createdAt"} THEN [orderBy |-> "createdAt", ok |-> TRUE]
         ELSE IF sortBy \in {"updated", "updatedAt"} THEN [orderBy |-> "updatedAt", ok |-> TRUE]
         ELSE IF sortBy = "linear" THEN [orderBy |-> "", ok |-> TRUE]
         ELSE [orderBy |-> "", ok |-> FALSE]
    ELSE [orderBy |-> "", ok |-> TRUE]

\* The same switch as written in user list.
SortOfUserList(sortBy) ==
    IF sortBy # ""
    THEN IF sortBy \in {"created", "createdAt"} THEN [orderBy |-> "createdAt", ok |-> TRUE]
         ELSE IF sortBy \in {"updated", "updatedAt"} THEN [orderBy |-> "updatedAt", ok |-> TRUE]
         ELSE IF sortBy = "linear" THEN [orderBy |-> "", ok |-> TRUE]
         ELSE [orderBy |-> "", ok |-> FALSE]
    ELSE [orderBy |-> "", ok |-> TRUE]

\* The sort switch of command c.
SortOf(c, sortBy) ==
    IF c = "issue list" THEN NormalizeSort(sortBy)
    ELSE IF c = "issue search" THEN SortOfIssueSearch(sortBy)
    ELSE IF c = "project list" THEN SortOfProjectList(sortBy)
    ELSE IF c = "comment list" THEN SortOfCommentList(sortBy)
    ELSE IF c = "team list" THEN SortOfTeamList(sortBy)
    ELSE SortOfUserList(sortBy)

\* A variant in which issue search always includes completed issues.
FilterFor_searchall(c, fl, t) ==
    IF c = "issue search"
    THEN buildIssueFilter([fl EXCEPT !.includeCompleted = TRUE], t)
    ELSE buildIssueFilter(fl, t)

\* filter := buildIssueFilter(cmd) in issue list and in issue search.
FilterFor(c, fl, t) == buildIssueFilter(fl, t)

\* A variant of project list that never looks the team up.
TeamLookupCalls_none(fl) == <<>>

\* The requests project list sends while it builds its filter.
TeamLookupCalls(fl) ==
    IF fl.team # "" THEN <<[op |-> "GetTeam", key |-> fl.team]>> ELSE <<>>

\* strings.TrimSpace on the queries of the model.
TrimSpace(q) == IF q = " " THEN "" ELSE q

QueryOp(c) ==
    IF c = "issue list" THEN "GetIssues"
    ELSE IF c = "issue search" THEN "IssueSearch"
    ELSE IF c = "project list" THEN "GetProjects"
    ELSE IF c = "comment list" THEN "GetIssueComments"
    ELSE IF c = "team list" THEN "GetTeams"
    ELSE "GetUsers"

\* The message of the command when authentication fails.
AuthFailedMsg(c) ==
    IF c \in {"issue list", "issue search"}
    THEN "Not authenticated" ELSE "Authentication failed"

\* The message of the command when its query fails.
QueryFailedMsg(c) ==
    IF c = "issue list" THEN "Failed to fetch issues"
    ELSE IF c = "issue search" THEN "Failed to search issues"
    ELSE IF c = "project list" THEN "Failed to list projects"
    ELSE IF c = "comment list" THEN "Failed to list comments"
    ELSE IF c = "team list" THEN "Failed to list teams"
    ELSE "Failed to list users"

\* The variables of the request a list query sends: orderBy is present only
\* when it is not "" (the filter is that of the filter commands, empty for
\* the others).
QueryCall(c, f, o) ==
    IF o # ""
    THEN [op |-> QueryOp(c), filter |-> f, orderBy |-> o, hasOrderBy |-> TRUE]
    ELSE [op |-> QueryOp(c), filter |-> f, orderBy |-> "", hasOrderBy |-> FALSE]

----------------------------------------------------------------------------
(* The commands, step by step.                                             *)

\* ParseTimeExpression has not been called.
NoResult == [val |-> <<>>, err |-> NoError]

\* No write or attachment command is running.
NoLocals == [none |-> TRUE]

\* buildIssueFilter is not being invoked concurrently.
NoInvocations == <<>>

Init ==
    /\ pc = "idle"
    /\ cmdName = "issue list"
    /\ flags = NoFlags
    /\ apiKey \in ApiKeys
    /\ now = <<>>
    /\ filter = EmptyMap
    /\ orderBy = ""
    /\ apiCalls = <<>>
    /\ exitCode = -1
    /\ errMsg = ""
    /\ res = NoResult
    /\ authLog = <<>>
    /\ local = NoLocals
    /\ disk = {}
    /\ inv = NoInvocations
    /\ heap = <<>>

\* os.Exit(1) after output.Error.
Fail(msg) ==
    /\ pc' = "exit"
    /\ exitCode' = 1
    /\ errMsg' = msg

\* The shell starts a command; issue search rejects a blank query first.
Invoke ==
    /\ pc = "idle"
    /\ \E c \in Commands : \E fl \in FlagsOf(c) :
        /\ cmdName' = c
        /\ flags' = fl
        /\ now' = <<>>
        /\ filter' = EmptyMap
        /\ orderBy' = ""
        /\ apiCalls' = <<>>
        /\ res' = NoResult
        /\ IF c = "issue search" /\ TrimSpace(fl.query) = ""
           THEN Fail("Search query is required")
           ELSE pc' = "auth" /\ exitCode' = -1 /\ errMsg' = ""
    /\ UNCHANGED <<apiKey, authVars, cmdVars, concVars>>

\* auth.GetAuthHeader and api.NewClient.
GetAuthHeader ==
    /\ pc = "auth"
    /\ IF apiKey = ""
       THEN Fail(AuthFailedMsg(cmdName))
       ELSE /\ pc' = IF cmdName \in FilterCommands THEN "build" ELSE "sort"
            /\ UNCHANGED <<exitCode, errMsg>>
    /\ UNCHANGED <<cmdName, flags, apiKey, now, filter, orderBy, apiCalls, res>>
    /\ UNCHANGED <<authVars, cmdVars, concVars>>

\* issue list / issue search: filter := buildIssueFilter(cmd).
BuildIssueFilter ==
    /\ pc = "build"
    /\ cmdName \in {"issue list", "issue search"}
    /\ \E t \in Clocks :
        \E r \in {FilterFor(cmdName, flags, t)} :
            /\ now' = t
            /\ res' = r.res
            /\ IF r.err # NoError
               THEN Fail("Invalid newer-than value") /\ UNCHANGED filter
               ELSE filter' = r.filter /\ pc' = "sort" /\ UNCHANGED <<exitCode, errMsg>>
    /\ UNCHANGED <<cmdName, flags, apiKey, orderBy, apiCalls>>
    /\ UNCHANGED <<authVars, cmdVars, concVars>>

\* project list: the inline filter construction, GetTeam included.
BuildProjectFilter ==
    /\ pc = "build"
    /\ cmdName = "project list"
    /\ \E t \in Clocks, teamFound \in BOOLEAN :
        \E r \in {buildProjectFilter(flags, t)} :
            IF flags.team # "" /\ ~teamFound
            THEN /\ apiCalls' = apiCalls \o TeamLookupCalls(flags)
                 /\ Fail("Failed to find team")
                 /\ UNCHANGED <<now, filter, res>>
            ELSE /\ apiCalls' = apiCalls \o TeamLookupCalls(flags)
                 /\ now' = t
                 /\ res' = r.res
                 /\ IF r.err # NoError
                    THEN Fail("Invalid newer-than value") /\ UNCHANGED filter
                    ELSE filter' = r.filter /\ pc' = "sort" /\ UNCHANGED <<exitCode, errMsg>>
    /\ UNCHANGED <<cmdName, flags, apiKey, orderBy>>
    /\ UNCHANGED <<authVars, cmdVars, concVars>>

\* The sort switch.
SortOption ==
    /\ pc = "sort"
    /\ \E r \in {SortOf(cmdName, flags.sort)} :
           IF r.ok
           THEN orderBy' = r.orderBy /\ pc' = "query" /\ UNCHANGED <<exitCode, errMsg>>
           ELSE Fail("Invalid sort option") /\ UNCHANGED orderBy
    /\ UNCHANGED <<cmdName, flags, apiKey, now, filter, apiCalls, res>>
    /\ UNCHANGED <<authVars, cmdVars, concVars>>

\* client.GetIssues / IssueSearch / GetProjects and rendering.
ExecQuery ==
    /\ pc = "query"
    /\ apiCalls' = Append(apiCalls, QueryCall(cmdName, filter, orderBy))
    /\ \E ok \in BOOLEAN :
        IF ok
        THEN pc' = "done" /\ exitCode' = 0 /\ UNCHANGED errMsg
        ELSE Fail(QueryFailedMsg(cmdName))
    /\ UNCHANGED <<cmdName, flags, apiKey, now, filter, orderBy, res>>
    /\ UNCHANGED <<authVars, cmdVars, concVars>>

\* The process has ended; its memory is gone and the shell is ready again.
Terminate ==
    /\ pc \in {"done", "exit"}
    /\ pc' = "idle"
    /\ cmdName' = "issue list"
    /\ flags' = NoFlags
    /\ now' = <<>>
    /\ filter' = EmptyMap
    /\ orderBy' = ""
    /\ apiCalls' = <<>>
    /\ exitCode' = -1
    /\ errMsg' = ""
    /\ res' = NoResult
    /\ UNCHANGED <<apiKey, authVars, cmdVars, concVars>>

Next ==
    \/ Invoke
    \/ Terminate
    \/ GetAuthHeader
    \/ BuildIssueFilter
    \/ BuildProjectFilter
    \/ SortOption
    \/ ExecQuery

Spec == Init /\ [][Next]_vars

TypeOK ==
    /\ pc \in {"idle", "auth", "build", "sort", "query", "done", "exit"}
    /\ cmdName \in Commands
    /\ exitCode \in {-1, 0, 1}
    /\ orderBy \in {"", "createdAt", "updatedAt"}

----------------------------------------------------------------------------
(* Properties.                                                             *)

IssueCommand == cmdName \in {"issue list", "issue search"}

\* The filter has been composed and handed on to the rest of the command.
Composed ==
    /\ cmdName \in FilterCommands
    /\ \/ pc \in {"sort", "query", "done"}
       \/ pc = "exit" /\ errMsg = "Invalid sort option"
       \/ pc = "exit" /\ errMsg = QueryFailedMsg(cmdName)

QueryOps ==
    {"GetIssues", "IssueSearch", "GetProjects", "GetIssueComments", "GetTeams", "GetUsers"}

NoQueryCall == \A i \in 1..Len(apiCalls) : apiCalls[i].op \notin QueryOps

\* The state predicate of the filter is an exact match on state s.
ExactState(s) ==
    /\ Has(filter, "state")
    /\ IF IssueCommand
       THEN /\ DOMAIN filter["state"] = {"name"}
            /\ DOMAIN filter["state"].name = {"eq"}
            /\ filter["state"].name.eq = s
       ELSE /\ DOMAIN filter["state"] = {"eq"}
            /\ filter["state"].eq = s

\* The list of state categories the state predicate excludes, <<>> if the
\* predicate is not an exclusion.
ExclusionList ==
    IF ~Has(filter, "state") THEN <<>>
    ELSE IF IssueCommand
         THEN IF DOMAIN filter["state"] = {"type"} /\ DOMAIN filter["state"].type = {"nin"}
              THEN filter["state"].type.nin ELSE <<>>
         ELSE IF DOMAIN filter["state"] = {"nin"} THEN filter["state"].nin ELSE <<>>

SeqRange(q) == {q[i] : i \in 1..Len(q)}

\* C1: with a non-empty --state the composed filter's state predicate is an
\* exact match on that state and the default exclusion of completed and
\* canceled is absent, whatever --include-completed is.
C1_ExplicitStateOverrides ==
    (Composed /\ flags.state # "") => (ExactState(flags.state) /\ ExclusionList = <<>>)

C1_Witness ==
    /\ pc = "done" /\ cmdName = "issue search"
    /\ flags.state = "Done" /\ ~flags.includeCompleted
    /\ ExactState("Done")

\* C2: with an empty --state and --include-completed false the composed
\* filter has a state predicate that excludes exactly the categories
\* completed and canceled.
C2_DefaultExclusion ==
    (Composed /\ flags.state = "" /\ ~flags.includeCompleted) =>
        (Has(filter, "state") /\ SeqRange(ExclusionList) = {"completed", "canceled"})

C2_Witness ==
    /\ pc = "done" /\ cmdName = "project list"
    /\ flags.state = "" /\ ~flags.includeCompleted
    /\ ExclusionList # <<>>

\* C3: with --include-completed true and an empty --state the composed
\* filter has no state key.
C3_IncludeCompletedNoState ==
    (Composed /\ flags.state = "" /\ flags.includeCompleted) => ~Has(filter, "state")

C3_Witness ==
    /\ pc = "done" /\ cmdName = "issue list"
    /\ flags.state = "" /\ flags.includeCompleted
    /\ flags.assignee = "me" /\ DOMAIN filter = {"assignee", "createdAt"}

\* Timestamp b is six calendar months before timestamp t: six months back on
\* the calendar, the same day of the month unless that month is shorter, the
\* same time of day.
SixMonthsBefore(b, t) ==
    /\ Len(b) = 4
    /\ b[1] * 12 + b[2] + 6 = t[1] * 12 + t[2]
    /\ b[2] \in 1..12
    /\ b[3] = Min(t[3], DaysIn(b[1], b[2]))
    /\ b[4] = t[4]

Without(m, k) == [x \in DOMAIN m \ {k} |-> m[x]]

\* The filter the running command composes from flags fl at time t.
ComposedFrom(fl, t) ==
    IF IssueCommand THEN buildIssueFilter(fl, t) ELSE buildProjectFilter(fl, t)

\* C5: all_time resolves to Unbounded whatever the clock reads, the filter
\* composed with it has no createdAt key, and its other predicates are those
\* composed from the same flags with any other valid time expression.
C5_AllTimeUnbounded ==
    (Composed /\ flags.newerThan = AllTimeToken) =>
        /\ \A t \in Clocks : resolve(flags.newerThan, t) = Unbounded
        /\ ~Has(filter, "createdAt")
        /\ \A e \in TimeExprs :
            LET r == ComposedFrom([flags EXCEPT !.newerThan = e], now)
            IN  r.err = NoError => Without(r.filter, "createdAt") = filter

C5_Witness ==
    /\ pc = "done" /\ flags.newerThan = AllTimeToken
    /\ flags.team = "ENG" /\ flags.state = "Done"
    /\ DOMAIN filter = {"state", "team"}

NotATime == <<"n", "o", "t", "_", "a", "_", "t", "i", "m", "e">>

\* C6: with the unrecognized expression not_a_time the command never gets
\* past filter construction and never sends the list or search query; once
\* the resolver has been called the command has reported the invalid
\* newer-than value and exited with status 1, leaving no filter.
C6_InvalidTimeFails ==
    flags.newerThan = NotATime =>
        /\ NoQueryCall
        /\ pc \notin {"sort", "query", "done"}
        /\ now # <<>> =>
            /\ pc = "exit" /\ exitCode = 1
            /\ errMsg = "Invalid newer-than value"
            /\ filter = EmptyMap

C6_Witness ==
    /\ flags.newerThan = NotATime /\ now # <<>>
    /\ cmdName = "project list" /\ flags.team = "ENG"
    /\ pc = "exit" /\ errMsg = "Invalid newer-than value"

\* C7 as claimed: with assignee 'unassigned' the filter of issue list and
\* issue search has an assignee predicate that is not a match on email.
C7_UnassignedIsAbsent ==
    (Composed /\ IssueCommand /\ flags.assignee = "unassigned") =>
        (Has(filter, "assignee") /\ "email" \notin DOMAIN filter["assignee"])

\* C7 amended: with assignee 'unassigned' the filter of issue list and issue
\* search has the exact-match predicate assignee.email eq "unassigned".
C7_UnassignedIsEmail ==
    (Composed /\ IssueCommand /\ flags.assignee = "unassigned") =>
        /\ Has(filter, "assignee")
        /\ DOMAIN filter["assignee"] = {"email"}
        /\ filter["assignee"].email = [eq |-> "unassigned"]

C7_Witness ==
    /\ pc = "done" /\ cmdName = "issue list" /\ flags.assignee = "unassigned"
    /\ "email" \in DOMAIN filter["assignee"]

\* C8: in the filter of buildIssueFilter, assignee 'me' gives the predicate
\* assignee.isMe eq true, any other non-empty assignee that is not the token
\* 'unassigned' gives assignee.email eq the input exactly as typed, and an
\* empty assignee gives no assignee key.
C8_AssigneePredicate ==
    (Composed /\ IssueCommand) =>
        /\ flags.assignee = "me" =>
            /\ Has(filter, "assignee")
            /\ DOMAIN filter["assignee"] = {"isMe"}
            /\ filter["assignee"].isMe = [eq |-> TRUE]
        /\ flags.assignee \notin {"", "me", "unassigned"} =>
            /\ Has(filter, "assignee")
            /\ DOMAIN filter["assignee"] = {"email"}
            /\ filter["assignee"].email = [eq |-> flags.assignee]
        /\ flags.assignee = "" => ~Has(filter, "assignee")

C8_Witness ==
    /\ pc = "done" /\ cmdName = "issue search" /\ flags.assignee = "Me"
    /\ filter["assignee"].email.eq = "Me"

\* C9: in the filter of buildIssueFilter, priority -1 gives no priority key
\* and any other priority p gives priority eq p; an empty team gives no team
\* key and a non-empty team gives team.key eq the team.
C9_PriorityAndTeam ==
    (Composed /\ IssueCommand) =>
        /\ flags.priority = -1 => ~Has(filter, "priority")
        /\ flags.priority # -1 =>
            (Has(filter, "priority") /\ filter["priority"] = [eq |-> flags.priority])
        /\ flags.team = "" => ~Has(filter, "team")
        /\ flags.team # "" =>
            (Has(filter, "team") /\ filter["team"] = [key |-> [eq |-> flags.team]])

C9_Witness ==
    /\ pc = "done" /\ cmdName = "issue list"
    /\ flags.priority = 0 /\ flags.team = "ENG"
    /\ filter["priority"].eq = 0 /\ filter["team"].key.eq = "ENG"

\* The sort switch has let the command through.
SortAccepted ==
    \/ pc \in {"query", "done"}
    \/ pc = "exit" /\ errMsg = QueryFailedMsg(cmdName)

AcceptedSortTokens == {"", "linear", "created", "createdAt", "updated", "updatedAt"}

QuerySent ==
    \/ pc = "done"
    \/ pc = "exit" /\ errMsg = QueryFailedMsg(cmdName)

\* C11: the six list commands normalize the sort token alike, and the query
\* they send omits orderBy for 'linear', orders by createdAt for 'created'
\* and by updatedAt for 'updated'.
C11_SortMappingAgrees ==
    /\ \A c \in Commands : SortOf(c, flags.sort) = SortOf(cmdName, flags.sort)
    /\ QuerySent =>
        LET q == apiCalls[Len(apiCalls)]
        IN  /\ q.op = QueryOp(cmdName)
            /\ flags.sort = "linear" => ~q.hasOrderBy
            /\ flags.sort = "created" => (q.hasOrderBy /\ q.orderBy = "createdAt")
            /\ flags.sort = "updated" => (q.hasOrderBy /\ q.orderBy = "updatedAt")

C11_Witness ==
    /\ pc = "done" /\ cmdName = "team list" /\ flags.sort = "created"
    /\ apiCalls[1].op = "GetTeams" /\ apiCalls[1].orderBy = "createdAt"

\* Filter construction has just ended, with a filter or with an error.
ComposingEnded ==
    /\ cmdName \in FilterCommands
    /\ \/ pc = "sort"
       \/ pc = "exit" /\ errMsg \in {"Invalid newer-than value", "Failed to find team"}

Resolved == cmdName \in FilterCommands /\ now # <<>>

\* b is a timestamp: a day of the calendar and a second of that day.
IsTimestamp(b) ==
    /\ Len(b) = 4
    /\ b[2] \in 1..12
    /\ b[3] \in 1..DaysIn(b[1], b[2])
    /\ b[4] \in 0..86399

\* The seconds from timestamp b to timestamp t.
SecondsBetween(b, t) ==
    (DaysFromCivil(t[1], t[2], t[3]) - DaysFromCivil(b[1], b[2], b[3])) * 86400 + t[4] - b[4]

\* b is n calendar months before t: n months back on the calendar, the same
\* day of the month unless that month is shorter, the same time of day.
MonthsBefore(b, t, n) ==
    /\ b[1] * 12 + b[2] + n = t[1] * 12 + t[2]
    /\ b[3] = Min(t[3], DaysIn(b[1], b[2]))
    /\ b[4] = t[4]

\* C13: N_unit_ago, for every N tried and every spelling of every unit,
\* resolves to a timestamp within one second of now minus N units -- N times
\* the unit's seconds for minutes, hours, days and weeks, N calendar months
\* or years for months and years -- and to now itself when N = 0; that
\* timestamp is the bound of the composed filter.
C13_RelativeWithinOneSecond ==
    Resolved =>
        \A n \in RelativeNs, u \in UnitTable :
            flags.newerThan = RelExpr(n, u.name) =>
                /\ res.err = NoError
                /\ IsTimestamp(res.val)
                /\ IF u.kind = "sec"
                   THEN SecondsBetween(res.val, now) - n * u.n \in {-1, 0, 1}
                   ELSE MonthsBefore(res.val, now, IF u.kind = "year" THEN 12 * n ELSE n)
                /\ n = 0 => res.val = now
                /\ Composed => filter["createdAt"] = [gte |-> res.val]

C13_Witness ==
    /\ pc = "done" /\ cmdName = "issue list"
    /\ flags.newerThan = RelExpr(12, <<"w", "e", "e", "k", "s">>)
    /\ now = <<2025, 1, 10, 0>>
    /\ filter["createdAt"].gte = <<2024, 10, 18, 0>>

\* The relative expressions of the model, the empty one (six months) included.
RelativeOrDefault ==
    RelativeExprs \cup {<<>>,
        <<"2", "_", "w", "e", "e", "k", "s", "_", "a", "g", "o">>,
        <<"1", "_", "m", "o", "n", "t", "h", "_", "a", "g", "o">>}

\* C14: a boundary resolved from a relative expression or from the empty
\* expression is never after the time of resolution, and a command that has
\* not resolved yet holds no boundary from an earlier invocation.
C14_BoundaryNotInFuture ==
    /\ (Resolved /\ flags.newerThan \in RelativeOrDefault) =>
        /\ res.err = NoError
        /\ IsTimestamp(res.val)
        /\ SecondsBetween(res.val, now) >= 0
        /\ Composed => filter["createdAt"] = [gte |-> res.val]
    /\ pc \in {"idle", "auth", "build"} =>
        (now = <<>> /\ res = NoResult /\ ~Has(filter, "createdAt"))

C14_Witness ==
    /\ pc = "done" /\ cmdName = "project list"
    /\ flags.newerThan = RelExpr(3, <<"y", "e", "a", "r", "s">>)
    /\ now = <<2024, 3, 31, 30>>
    /\ filter["createdAt"].gte = <<2021, 3, 31, 30>>

OneMonthAgo == <<"1", "_", "m", "o", "n", "t", "h", "_", "a", "g", "o">>

\* C15: 1_month_ago resolved on a March 31 is the last day of February of
\* the same year, the 29th in a leap year and the 28th otherwise, at the same
\* time of day; and whatever the day, N months back never leaves the target
\* month.
C15_MonthEndClamped ==
    /\ (Resolved /\ flags.newerThan = OneMonthAgo /\ now[2] = 3 /\ now[3] = 31) =>
        /\ res.err = NoError
        /\ res.val[1] = now[1] /\ res.val[2] = 2
        /\ res.val[3] = (IF now[1] \in {2024, 2028} THEN 29 ELSE 28)
        /\ res.val[4] = now[4]
    /\ \A n \in RelativeNs, m \in {<<"m", "o", "n", "t", "h">>, <<"m", "o", "n", "t", "h", "s">>} :
        (Resolved /\ flags.newerThan = RelExpr(n, m)) =>
            /\ res.val[1] * 12 + res.val[2] + n = now[1] * 12 + now[2]
            /\ res.val[3] <= DaysIn(res.val[1], res.val[2])
            /\ res.val[3] <= now[3]

C15_Witness ==
    /\ pc = "done" /\ flags.newerThan = OneMonthAgo
    /\ now = <<2024, 3, 31, 30>>
    /\ res.val = <<2024, 2, 29, 30>>
    /\ filter["createdAt"].gte = <<2024, 2, 29, 30>>

C17_InvalidExpressionFails ==
    /\ (Resolved /\ flags.newerThan \in InvalidExprs) =>
        /\ res.err.kind = "InvalidTimeExpression"
        /\ res.err.expr = flags.newerThan
        /\ res.val = <<>>
        /\ pc = "exit" /\ exitCode = 1 /\ errMsg = "Invalid newer-than value"
        /\ ~Has(filter, "createdAt")
    /\ (Resolved /\ flags.newerThan \notin InvalidExprs) => res.err = NoError

C17_Witness ==
    /\ pc = "exit" /\ cmdName = "issue list"
    /\ flags.newerThan = <<"2", "0", "2", "5", "-", "1", "3", "-", "0", "1">>
    /\ res.err.kind = "InvalidTimeExpression"
    /\ res.err.expr = flags.newerThan

\* C18: the filter issue search sends with IssueSearch is the filter issue
\* list sends with GetIssues for the same values of --assignee, --state,
\* --team, --priority, --include-completed and --newer-than.
C18_SearchSharesListFilter ==
    (IssueCommand /\ QuerySent) =>
        LET q == apiCalls[Len(apiCalls)]
        IN  /\ Len(apiCalls) = 1
            /\ q.op = (IF cmdName = "issue search" THEN "IssueSearch" ELSE "GetIssues")
            /\ q.filter = FilterFor("issue list", flags, now).filter

C18_Witness ==
    /\ pc = "done" /\ cmdName = "issue search"
    /\ flags.assignee = "ann@x.io" /\ flags.team = "ENG" /\ flags.priority = 2
    /\ flags.state = "" /\ ~flags.includeCompleted
    /\ apiCalls[1].op = "IssueSearch"
    /\ DOMAIN apiCalls[1].filter = {"assignee", "state", "team", "priority", "createdAt"}

TwoWeeksAgo == <<"2", "_", "w", "e", "e", "k", "s", "_", "a", "g", "o">>

\* C19: assignee 'me' with 2_weeks_ago, no state, no team, no priority and
\* include-completed false gives a filter of exactly three predicates:
\* assignee.isMe eq true, createdAt gte now minus 14 days, and the exclusion
\* of completed and canceled.
C19_MeTwoWeeksScenario ==
    (/\ Composed /\ IssueCommand
     /\ flags.assignee = "me" /\ flags.newerThan = TwoWeeksAgo
     /\ flags.state = "" /\ ~flags.includeCompleted
     /\ flags.team = "" /\ flags.priority = -1) =>
        /\ DOMAIN filter = {"assignee", "state", "createdAt"}
        /\ filter["assignee"] = [isMe |-> [eq |-> TRUE]]
        /\ filter["state"] = [type |-> [nin |-> <<"completed", "canceled">>]]
        /\ DOMAIN filter["createdAt"] = {"gte"}
        /\ IsTimestamp(filter["createdAt"].gte)
        /\ SecondsBetween(filter["createdAt"].gte, now) = 14 * 86400

C19_Witness ==
    /\ pc = "done" /\ cmdName = "issue list"
    /\ flags.assignee = "me" /\ flags.newerThan = TwoWeeksAgo
    /\ flags.state = "" /\ ~flags.includeCompleted
    /\ flags.team = "" /\ flags.priority = -1
    /\ now = <<2025, 1, 10, 0>>
    /\ filter["createdAt"].gte = <<2024, 12, 27, 0>>

FilterKeys == {"assignee", "state", "team", "priority", "createdAt"}

\* The flags that request only criterion k, with the values that the running
\* command has for k and every other criterion switched off.
OnlyCriterion(k) ==
    LET off == [NoFlags EXCEPT !.includeCompleted = TRUE, !.newerThan = AllTimeToken]
    IN  IF k = "assignee" THEN [off EXCEPT !.assignee = flags.assignee]
        ELSE IF k = "state"
             THEN [off EXCEPT !.state = flags.state, !.includeCompleted = flags.includeCompleted]
        ELSE IF k = "team" THEN [off EXCEPT !.team = flags.team]
        ELSE IF k = "priority" THEN [off EXCEPT !.priority = flags.priority]
        ELSE [off EXCEPT !.newerThan = flags.newerThan]

\* C20: the filter of buildIssueFilter has keys among assignee, state, team,
\* priority and createdAt; each key is present exactly when its own input
\* asks for it; and the predicate under a key is the one that the key's
\* input gives with every other criterion switched off.
C20_CriteriaIndependent ==
    (Composed /\ IssueCommand) =>
        /\ DOMAIN filter \subseteq FilterKeys
        /\ Has(filter, "assignee") <=> flags.assignee # ""
        /\ Has(filter, "state") <=> (flags.state # "" \/ ~flags.includeCompleted)
        /\ Has(filter, "team") <=> flags.team # ""
        /\ Has(filter, "priority") <=> flags.priority # -1
        /\ Has(filter, "createdAt") <=> flags.newerThan # AllTimeToken
        /\ \A k \in DOMAIN filter :
            LET alone == buildIssueFilter(OnlyCriterion(k), now).filter
            IN  DOMAIN alone = {k} /\ alone[k] = filter[k]

C20_Witness ==
    /\ pc = "done" /\ cmdName = "issue list"
    /\ flags.assignee = "me" /\ flags.team = "ENG" /\ flags.priority = 7
    /\ flags.state = "Done" /\ flags.newerThan = AllTimeToken
    /\ DOMAIN filter = {"assignee", "state", "team", "priority"}

----------------------------------------------------------------------------
(* Package auth: the credential file and the functions that read and      *)
(* write it.  apiKey is the api_key of ~/.linctl-auth.json, "" when the   *)
(* file does not exist (loginWithAPIKey never saves an empty key).        *)

\* The largest number of calls of package auth in one history.
MaxCalls == 3

Key1 == "lin_api_k1"

Key2 == "lin_api_k2"

\* What the user types at the prompt, in pieces: a key, blanks, and the
\* newline that ends the line (the last one is cut off before its newline).
TypedLines == {
    <<"\n">>,
    <<" ", "\n">>,
    <<Key1, "\n">>,
    <<" ", Key1, " ", "\n">>,
    <<Key2, "\r", "\n">>,
    <<Key1>> }

IsSpace(c) == c \in {" ", "\t", "\r", "\n"}

RECURSIVE TrimLeft(_)
TrimLeft(l) ==
    IF l # <<>> /\ IsSpace(Head(l)) THEN TrimLeft(Tail(l)) ELSE l

RECURSIVE TrimRight(_)
TrimRight(l) ==
    IF l # <<>> /\ IsSpace(l[Len(l)]) THEN TrimRight(SubSeq(l, 1, Len(l) - 1)) ELSE l

RECURSIVE Join(_)
Join(l) == IF l = <<>> THEN "" ELSE Head(l) \o Join(Tail(l))

\* strings.TrimSpace on a typed line.
TrimSpaceLine(l) == Join(TrimRight(TrimLeft(l)))

\* reader.ReadString('\n'): an error when the input ends before a newline.
ReadString(l) ==
    IF l # <<>> /\ l[Len(l)] = "\n" THEN [line |-> l, err |-> ""]
    ELSE [line |-> l, err |-> "EOF"]

\* loadAuth: the stored configuration, or 'not authenticated' when there is
\* no file.
loadAuth(stored) ==
    IF stored = "" THEN [config |-> "", err |-> "not authenticated"]
    ELSE [config |-> stored, err |-> ""]

\* GetAuthHeader given what loadAuth returned.
AuthHeaderOf(r) ==
    IF r.err # "" THEN [val |-> "", err |-> r.err]
    ELSE IF r.config # "" THEN [val |-> r.config, err |-> ""]
    ELSE [val |-> "", err |-> "no valid authentication found"]

\* GetAuthHeader() (string, error).
GetAuthHeaderResult(stored) == AuthHeaderOf(loadAuth(stored))

\* A variant of login that saves the key before it has tested it.
LoginOutcome_savefirst(key, readErr, viewerOk, saveOk, stored) ==
    IF readErr # "" THEN [err |-> readErr, steps |-> <<>>, stored |-> stored]
    ELSE IF key = ""
         THEN [err |-> "API key cannot be empty", steps |-> <<>>, stored |-> stored]
    ELSE IF ~saveOk
         THEN [err |-> "write failed", steps |-> <<"saveAuth">>, stored |-> stored]
    ELSE IF ~viewerOk
         THEN [err |-> "invalid API key", steps |-> <<"saveAuth", "GetViewer failed">>,
               stored |-> key]
    ELSE [err |-> "", steps |-> <<"saveAuth", "GetViewer ok">>, stored |-> key]

\* loginWithAPIKey after the line was read and trimmed: the error it
\* returns, the steps it took, and the stored key it leaves.  A failed
\* os.WriteFile leaves the file as it was.
LoginOutcome(key, readErr, viewerOk, saveOk, stored) ==
    IF readErr # "" THEN [err |-> readErr, steps |-> <<>>, stored |-> stored]
    ELSE IF key = ""
         THEN [err |-> "API key cannot be empty", steps |-> <<>>, stored |-> stored]
    ELSE IF ~viewerOk
         THEN [err |-> "invalid API key", steps |-> <<"GetViewer failed">>,
               stored |-> stored]
    ELSE IF ~saveOk
         THEN [err |-> "write failed", steps |-> <<"GetViewer ok", "saveAuth">>,
               stored |-> stored]
    ELSE [err |-> "", steps |-> <<"GetViewer ok", "saveAuth">>, stored |-> key]

\* A variant of Logout that reports success without removing the file.
LogoutOutcome_keep(removeOk, stored) == [err |-> "", stored |-> stored]

\* Logout: os.Remove, where a missing file is not an error.
LogoutOutcome(removeOk, stored) ==
    IF stored = "" THEN [err |-> "", stored |-> ""]
    ELSE IF removeOk THEN [err |-> "", stored |-> ""]
    ELSE [err |-> "remove failed", stored |-> stored]

\* loginWithAPIKey.
LoginWithAPIKey ==
    /\ Len(authLog) < MaxCalls
    /\ \E l \in TypedLines, viewerOk \in BOOLEAN, saveOk \in BOOLEAN :
        \E rd \in {ReadString(l)} :
        \E r \in {LoginOutcome(TrimSpaceLine(rd.line), rd.err, viewerOk, saveOk, apiKey)} :
            /\ apiKey' = r.stored
            /\ authLog' = Append(authLog,
                   [fn |-> "Login", key |-> TrimSpaceLine(rd.line), val |-> "",
                    err |-> r.err, steps |-> r.steps,
                    before |-> apiKey, after |-> r.stored])
    /\ UNCHANGED <<listVars, cmdVars, concVars>>

\* auth.Logout.
Logout ==
    /\ Len(authLog) < MaxCalls
    /\ \E removeOk \in BOOLEAN :
        \E r \in {LogoutOutcome(removeOk, apiKey)} :
            /\ apiKey' = r.stored
            /\ authLog' = Append(authLog,
                   [fn |-> "Logout", key |-> "", val |-> "", err |-> r.err,
                    steps |-> <<>>, before |-> apiKey, after |-> r.stored])
    /\ UNCHANGED <<listVars, cmdVars, concVars>>

\* A command calls auth.GetAuthHeader.
CallGetAuthHeader ==
    /\ Len(authLog) < MaxCalls
    /\ \E r \in {GetAuthHeaderResult(apiKey)} :
        authLog' = Append(authLog,
            [fn |-> "GetAuthHeader", key |-> "", val |-> r.val, err |-> r.err,
             steps |-> <<>>, before |-> apiKey, after |-> apiKey])
    /\ UNCHANGED <<listVars, apiKey, cmdVars, concVars>>

AuthNext ==
    \/ LoginWithAPIKey
    \/ Logout
    \/ CallGetAuthHeader

AuthSpec == Init /\ [][AuthNext]_vars

\* The calls that changed or cleared the stored credentials before call i.
AuthChangesBefore(i) ==
    {j \in 1..(i - 1) : authLog[j].fn \in {"Login", "Logout"} /\ authLog[j].err = ""}

Latest(S) == CHOOSE j \in S : \A k \in S : k <= j

C23_FailedLoginKeepsCredentials ==
    \A i \in 1..Len(authLog) :
        authLog[i].fn = "Login" =>
            /\ (\E n \in DOMAIN authLog[i].steps : authLog[i].steps[n] = "saveAuth") =>
                (authLog[i].key # "" /\ authLog[i].steps = <<"GetViewer ok", "saveAuth">>)
            /\ authLog[i].err \in {"API key cannot be empty", "invalid API key"} =>
                /\ authLog[i].after = authLog[i].before
                /\ (i < Len(authLog) /\ authLog[i + 1].fn = "GetAuthHeader"
                        /\ authLog[i].before # "") =>
                    (authLog[i + 1].val = authLog[i].before /\ authLog[i + 1].err = "")
            /\ authLog[i].key = "" => authLog[i].err # ""

C23_Witness ==
    /\ Len(authLog) = 3
    /\ authLog[1].fn = "Login" /\ authLog[1].err = "" /\ authLog[1].key = Key1
    /\ authLog[2].fn = "Login" /\ authLog[2].err = "invalid API key" /\ authLog[2].key = Key2
    /\ authLog[3].fn = "GetAuthHeader" /\ authLog[3].val = Key1

----------------------------------------------------------------------------
(* buildIssueFilter invoked by two command dispatches at once.  Each      *)
(* invocation runs the statements of the function in order; the scheduler *)
(* interleaves the two freely.  A map lives on the heap at an address.    *)

Workers == {"a", "b"}

\* The flags of the dispatches that run at once.
ConcFlags == {
    NoFlags,
    [NoFlags EXCEPT !.assignee = "me", !.team = "ENG", !.priority = 2,
                    !.newerThan = <<"2", "_", "w", "e", "e", "k", "s", "_", "a", "g", "o">>],
    [NoFlags EXCEPT !.assignee = "ann@x.io", !.state = "Done", !.includeCompleted = TRUE,
                    !.newerThan = AllTimeToken],
    [NoFlags EXCEPT !.newerThan = <<"n", "o", "t", "_", "a", "_", "t", "i", "m", "e">>] }

\* A variant of make that hands out one package-level map to every caller.
Allocate_shared(h) ==
    IF h = <<>> THEN [heap |-> <<EmptyMap>>, addr |-> 1] ELSE [heap |-> h, addr |-> 1]

\* filter := make(map[string]interface{}): a new empty map at a new address.
Allocate(h) == [heap |-> Append(h, EmptyMap), addr |-> Len(h) + 1]

\* os.Exit(1) in one invocation ends the process, the other invocation with it.
ProcessRuns == \A w \in Workers : inv[w].pc # "exit"

\* Two dispatches call buildIssueFilter.
Dispatch ==
    /\ inv = NoInvocations
    /\ \E fa \in ConcFlags, fb \in ConcFlags :
        inv' = [w \in Workers |->
                   [pc |-> "make", flags |-> IF w = "a" THEN fa ELSE fb,
                    addr |-> 0, now |-> <<>>, ret |-> 0]]
    /\ UNCHANGED <<listVars, apiKey, authVars, cmdVars, heap>>

\* filter := make(...).
FilterMake(w) ==
    /\ inv # NoInvocations /\ ProcessRuns /\ inv[w].pc = "make"
    /\ \E r \in {Allocate(heap)} :
        /\ heap' = r.heap
        /\ inv' = [inv EXCEPT ![w].pc = "assignee", ![w].addr = r.addr]
    /\ UNCHANGED <<listVars, apiKey, authVars, cmdVars>>

\* One of the four criteria that need no clock is written into the map.
FilterPut(w) ==
    /\ inv # NoInvocations /\ ProcessRuns
    /\ inv[w].pc \in {"assignee", "state", "team", "priority"}
    /\ \E a \in {inv[w].addr}, fl \in {inv[w].flags} :
        /\ heap' = [heap EXCEPT ![a] =
               IF inv[w].pc = "assignee" THEN IssueAssignee(heap[a], fl.assignee)
               ELSE IF inv[w].pc = "state"
                    THEN IssueState(heap[a], fl.state, fl.includeCompleted)
               ELSE IF inv[w].pc = "team" THEN IssueTeam(heap[a], fl.team)
               ELSE IssuePriority(heap[a], fl.priority)]
        /\ inv' = [inv EXCEPT ![w].pc =
               IF inv[w].pc = "assignee" THEN "state"
               ELSE IF inv[w].pc = "state" THEN "team"
               ELSE IF inv[w].pc = "team" THEN "priority"
               ELSE "newer"]
    /\ UNCHANGED <<listVars, apiKey, authVars, cmdVars>>

\* The newer-than criterion: the invocation reads the clock itself; an
\* invalid expression ends the process.
FilterNewerThan(w) ==
    /\ inv # NoInvocations /\ ProcessRuns /\ inv[w].pc = "newer"
    /\ \E t \in Clocks :
        \E r \in {CreatedAtCriterion(heap[inv[w].addr], inv[w].flags.newerThan, t)} :
            IF r.err # NoError
            THEN /\ inv' = [inv EXCEPT ![w].pc = "exit", ![w].now = t]
                 /\ UNCHANGED heap
            ELSE /\ heap' = [heap EXCEPT ![inv[w].addr] = r.filter]
                 /\ inv' = [inv EXCEPT ![w].pc = "return", ![w].now = t]
    /\ UNCHANGED <<listVars, apiKey, authVars, cmdVars>>

\* return filter.
FilterReturn(w) ==
    /\ inv # NoInvocations /\ ProcessRuns /\ inv[w].pc = "return"
    /\ inv' = [inv EXCEPT ![w].pc = "returned", ![w].ret = inv[w].addr]
    /\ UNCHANGED <<listVars, apiKey, authVars, cmdVars, heap>>

ConcNext ==
    \/ Dispatch
    \/ \E w \in Workers : FilterMake(w)
    \/ \E w \in Workers : FilterPut(w)
    \/ \E w \in Workers : FilterNewerThan(w)
    \/ \E w \in Workers : FilterReturn(w)

ConcSpec == Init /\ [][ConcNext]_vars

\* C21: whatever the interleaving of two invocations of buildIssueFilter, the
\* map an invocation returns is its own (no other invocation holds its
\* address) and equals the filter the invocation builds when it runs alone
\* with its flags and its clock reading, also while the other still runs.
C21_ConcurrentFiltersIndependent ==
    inv # NoInvocations =>
        \A w \in Workers :
            inv[w].pc = "returned" =>
                /\ heap[inv[w].ret] = buildIssueFilter(inv[w].flags, inv[w].now).filter
                /\ \A v \in Workers \ {w} : inv[v].addr # inv[w].ret

C21_Witness ==
    /\ inv # NoInvocations
    /\ inv["a"].pc = "returned" /\ inv["b"].pc = "returned"
    /\ inv["a"].ret = 2 /\ inv["b"].ret = 1
    /\ inv["a"].flags.assignee = "me" /\ inv["b"].flags.assignee = "ann@x.io"
    /\ DOMAIN heap[2] = {"assignee", "state", "team", "priority", "createdAt"}
    /\ DOMAIN heap[1] = {"assignee", "state"}

----------------------------------------------------------------------------
(* The commands that write: issue attachments upload and download, issue  *)
(* update and issue create.  What a service answers is chosen at the step *)
(* that asks; apiCalls lists the requests in the order they were sent.    *)

WriteCommands ==
    {"attachments upload", "attachments download", "issue update", "issue create"}

\* HTTP status codes around the 2xx range.
HttpStatuses == {199, 200, 299, 300, 404}

\* resp.StatusCode < 200 || resp.StatusCode > 299.
StatusFailed(code) == code < 200 \/ code > 299

\* The arguments of issue attachments upload: the path names nothing, a
\* directory or a file; --title may be left out.
UploadArgs ==
    [issue : {"ENG-1"}, kind : {"missing", "dir", "file"},
     filename : {"shot.png", "notes"}, title : {"", "Screenshot"}]

\* mime.TypeByExtension of the file names above, "" for an unknown extension.
TypeByExtension(filename) == IF filename = "shot.png" THEN "image/png" ELSE ""

\* A request of a write command, with whether it succeeded.
Call(op, arg, ok) == [op |-> op, arg |-> arg, ok |-> ok]

\* An HTTP request to the file store, with the status of the response (0 when
\* none came).
HttpCall(op, arg, status) ==
    [op |-> op, arg |-> arg, ok |-> ~StatusFailed(status), status |-> status]

\* The part of a command after authentication begins here.
FirstStep(c) ==
    IF c = "attachments upload" THEN "stat"
    ELSE IF c = "attachments download" THEN "fetch"
    ELSE IF c = "issue update" THEN "fields"
    ELSE "validate"

\* authHeader, err := auth.GetAuthHeader() in a write command.
CmdGetAuthHeader ==
    /\ pc = "auth" /\ cmdName \in WriteCommands
    /\ \E r \in {GetAuthHeaderResult(apiKey)} :
        IF r.err # ""
        THEN Fail("Not authenticated") /\ UNCHANGED local
        ELSE /\ pc' = FirstStep(cmdName)
             /\ local' = [local EXCEPT !.authHeader = r.val]
             /\ UNCHANGED <<exitCode, errMsg>>
    /\ UNCHANGED <<cmdName, flags, now, filter, orderBy, apiCalls, res>>
    /\ UNCHANGED <<apiKey, authVars, disk, concVars>>

\* A step of a write command that touches nothing outside the command.
CmdFrame == UNCHANGED <<cmdName, flags, now, filter, orderBy, res, apiKey, authVars, concVars>>

\* The process has ended.
CmdTerminate ==
    /\ pc \in {"done", "exit"} /\ cmdName \in WriteCommands
    /\ pc' = "idle"
    /\ cmdName' = "issue list"
    /\ flags' = NoFlags
    /\ apiCalls' = <<>>
    /\ exitCode' = -1
    /\ errMsg' = ""
    /\ local' = NoLocals
    /\ disk' = {}
    /\ UNCHANGED <<now, filter, orderBy, res, apiKey, authVars, concVars>>

\* upload: os.Stat and the directory test, then file name, content type and
\* title.
UploadStat ==
    /\ pc = "stat"
    /\ IF flags.kind = "missing" THEN Fail("Failed to read file") /\ UNCHANGED local
       ELSE IF flags.kind = "dir" THEN Fail("File path is a directory") /\ UNCHANGED local
       ELSE /\ pc' = "resolve"
            /\ local' = [authHeader |-> local.authHeader,
                         filename |-> flags.filename,
                         contentType |->
                             IF TypeByExtension(flags.filename) = ""
                             THEN "application/octet-stream"
                             ELSE TypeByExtension(flags.filename),
                         title |-> IF flags.title = "" THEN flags.filename ELSE flags.title]
            /\ UNCHANGED <<exitCode, errMsg>>
    /\ UNCHANGED <<apiCalls, disk>>
    /\ CmdFrame

\* upload: client.GetIssueAttachments(ctx, issueRef, 1).
UploadResolveIssue ==
    /\ pc = "resolve"
    /\ \E ok \in BOOLEAN :
        /\ apiCalls' = Append(apiCalls, Call("GetIssueAttachments", flags.issue, ok))
        /\ IF ok THEN pc' = "request" /\ UNCHANGED <<exitCode, errMsg>>
           ELSE Fail("Failed to resolve issue")
    /\ UNCHANGED <<local, disk>>
    /\ CmdFrame

\* Client.FileUpload: the request failed, or the answer reports no success or
\* carries no uploadFile.
FileUploadFailed(execOk, success, hasUploadFile) ==
    ~execOk \/ ~success \/ ~hasUploadFile

\* upload: client.FileUpload.
UploadFileUpload ==
    /\ pc = "request"
    /\ \E execOk \in BOOLEAN, success \in BOOLEAN, hasUploadFile \in BOOLEAN :
        \E failed \in {FileUploadFailed(execOk, success, hasUploadFile)} :
            /\ apiCalls' = Append(apiCalls, Call("FileUpload", local.filename, ~failed))
            /\ IF failed THEN Fail("Failed to request upload URL")
               ELSE pc' = "put" /\ UNCHANGED <<exitCode, errMsg>>
    /\ UNCHANGED <<local, disk>>
    /\ CmdFrame

\* A variant of putFile that does not look at the status of the response.
putFile_anystatus(openOk, requestOk, sendOk, status) ==
    IF ~openOk THEN [sent |-> FALSE, err |-> "open"]
    ELSE IF ~requestOk THEN [sent |-> FALSE, err |-> "request"]
    ELSE IF ~sendOk THEN [sent |-> TRUE, err |-> "send"]
    ELSE [sent |-> TRUE, err |-> ""]

\* putFile: open the file, build the PUT request, send it, test the status.
putFile(openOk, requestOk, sendOk, status) ==
    IF ~openOk THEN [sent |-> FALSE, err |-> "open"]
    ELSE IF ~requestOk THEN [sent |-> FALSE, err |-> "request"]
    ELSE IF ~sendOk THEN [sent |-> TRUE, err |-> "send"]
    ELSE IF StatusFailed(status) THEN [sent |-> TRUE, err |-> "upload failed"]
    ELSE [sent |-> TRUE, err |-> ""]

\* upload: putFile(uploadFile.UploadURL, ...).  A request that got no
\* response is listed with status 0.
UploadPutFile ==
    /\ pc = "put"
    /\ \E openOk \in BOOLEAN, requestOk \in BOOLEAN, sendOk \in BOOLEAN,
          status \in HttpStatuses :
        \E r \in {putFile(openOk, requestOk, sendOk, status)} :
            /\ apiCalls' =
                   IF r.sent
                   THEN Append(apiCalls,
                            HttpCall("PUT", local.filename, IF sendOk THEN status ELSE 0))
                   ELSE apiCalls
            /\ IF r.err # "" THEN Fail("Failed to upload file to Linear storage")
               ELSE pc' = "attach" /\ UNCHANGED <<exitCode, errMsg>>
    /\ UNCHANGED <<local, disk>>
    /\ CmdFrame

\* upload: client.AttachmentCreate(ctx, issue.ID, title, uploadFile.AssetURL).
UploadAttachmentCreate ==
    /\ pc = "attach"
    /\ \E ok \in BOOLEAN :
        /\ apiCalls' = Append(apiCalls, Call("AttachmentCreate", local.title, ok))
        /\ IF ok THEN pc' = "done" /\ exitCode' = 0 /\ UNCHANGED errMsg
           ELSE Fail("Failed to create attachment")
    /\ UNCHANGED <<local, disk>>
    /\ CmdFrame

----------------------------------------------------------------------------
(* File names of downloads.  A name, a title, an ID or a path is a        *)
(* sequence of characters; "DEL" stands for the one character 0x7F, a     *)
(* control character that is not white space.                             *)

\* The longest attachment title tried.
MaxTitleLen == 2

MaxFilenameLen == 120

TitleChars == {"a", ".", "/", "\\", " ", "DEL"}

IsControl(c) == c \in {"\t", "\n", "\r", "DEL"}

\* strings.TrimSpace on a sequence of characters.
TrimSpaceChars(s) == TrimRight(TrimLeft(s))

\* A variant of the character map that leaves path separators alone.
MapRune_keepslash(c) == IF IsControl(c) THEN <<>> ELSE <<c>>

\* The strings.Map function of sanitizeFilename on one character: a path
\* separator becomes '-', a control character is dropped.
MapRune(c) ==
    IF c \in {"/", "\\"} THEN <<"-">>
    ELSE IF IsControl(c) THEN <<>>
    ELSE <<c>>

RECURSIVE MapRunes(_)
MapRunes(s) == IF s = <<>> THEN <<>> ELSE MapRune(Head(s)) \o MapRunes(Tail(s))

\* strings.ReplaceAll(strings.Join(strings.Fields(s), " "), " ", "-"): the
\* words of s with one '-' between them.
RECURSIVE FieldsJoined(_, _)
FieldsJoined(s, inWord) ==
    IF s = <<>> THEN <<>>
    ELSE IF IsSpace(Head(s))
         THEN (IF inWord /\ TrimLeft(s) # <<>> THEN <<"-">> ELSE <<>>)
              \o FieldsJoined(TrimLeft(s), FALSE)
    ELSE <<Head(s)>> \o FieldsJoined(Tail(s), TRUE)

Truncate(s) == IF Len(s) > MaxFilenameLen THEN SubSeq(s, 1, MaxFilenameLen) ELSE s

sanitizeFilename(s) ==
    IF TrimSpaceChars(s) = <<>> THEN <<>>
    ELSE Truncate(FieldsJoined(MapRunes(TrimSpaceChars(s)), FALSE))

\* The positions of character c in s.
Positions(s, c) == {i \in DOMAIN s : s[i] = c}

Largest(S) == CHOOSE i \in S : \A j \in S : j <= i

\* filepath.Ext: the suffix from the last dot of the last element, or "".
Ext(s) ==
    IF Positions(s, ".") = {} THEN <<>>
    ELSE IF \E i \in Positions(s, "/") : i > Largest(Positions(s, "."))
         THEN <<>>
    ELSE SubSeq(s, Largest(Positions(s, ".")), Len(s))

RECURSIVE StripTrailingSlashes(_)
StripTrailingSlashes(s) ==
    IF s # <<>> /\ s[Len(s)] = "/" THEN StripTrailingSlashes(SubSeq(s, 1, Len(s) - 1)) ELSE s

\* The last element of a path without trailing slashes.
LastElement(s) ==
    IF Positions(s, "/") = {} THEN s
    ELSE SubSeq(s, Largest(Positions(s, "/")) + 1, Len(s))

\* path.Base.
Base(s) ==
    IF s = <<>> THEN <<".">>
    ELSE IF StripTrailingSlashes(s) = <<>> THEN <<"/">>
    ELSE LastElement(StripTrailingSlashes(s))

\* The elements of a path between its slashes.
RECURSIVE Elements(_)
Elements(s) ==
    IF Positions(s, "/") = {} THEN <<s>>
    ELSE Append(Elements(SubSeq(s, 1, Largest(Positions(s, "/")) - 1)), LastElement(s))

\* filepath.Clean on the elements of a relative path: "" and "." vanish and
\* ".." removes the element before it, if there is one to remove.
RECURSIVE CleanElements(_, _)
CleanElements(els, acc) ==
    IF els = <<>> THEN acc
    ELSE IF Head(els) \in {<<>>, <<".">>} THEN CleanElements(Tail(els), acc)
    ELSE IF Head(els) = <<".", ".">> /\ acc # <<>> /\ acc[Len(acc)] # <<".", ".">>
         THEN CleanElements(Tail(els), SubSeq(acc, 1, Len(acc) - 1))
    ELSE CleanElements(Tail(els), Append(acc, Head(els)))

\* filepath.Join(dir, name), as the elements of the cleaned path.
JoinPath(dir, name) == CleanElements(Elements(dir \o <<"/">> \o name), <<>>)

\* The name before the extension of the URL is tried: the sanitized title,
\* or else the sanitized ID.
TitleOrID(att) ==
    IF sanitizeFilename(att.title) = <<>> THEN sanitizeFilename(att.id)
    ELSE sanitizeFilename(att.title)

\* The name with the extension of the URL path when it has none itself.
WithURLExt(name, urlPath) ==
    IF Ext(name) = <<>> /\ Ext(Base(urlPath)) # <<>> THEN name \o Ext(Base(urlPath))
    ELSE name

\* The unsanitized ID stands in for a name that is still empty.
OrRawID(name, att) == IF name = <<>> THEN att.id ELSE name

\* fmt.Sprintf("%s-%s-%s", ...) in downloadAttachment.
DownloadName(identifier, att) ==
    sanitizeFilename(identifier) \o <<"-">> \o sanitizeFilename(att.id) \o <<"-">>
        \o OrRawID(WithURLExt(TitleOrID(att), att.url.path), att)

\* Content-Type values, in pieces.
ContentTypes == {
    <<>>,
    <<" ", "IMAGE/PNG", ";", " ", "q=1">>,
    <<"application/pdf">>,
    <<"text/html">> }

\* strings.ToLower on the pieces above.
ToLowerPiece(c) == IF c = "IMAGE/PNG" THEN "image/png" ELSE c

\* The pieces before the first ';'.
RECURSIVE BeforeSemicolon(_)
BeforeSemicolon(s) ==
    IF s = <<>> \/ Head(s) = ";" THEN <<>> ELSE <<Head(s)>> \o BeforeSemicolon(Tail(s))

\* extFromContentType.
extFromContentType(ct) ==
    LET t == Join(TrimSpaceChars(BeforeSemicolon(
                 TrimSpaceChars([i \in DOMAIN ct |-> ToLowerPiece(ct[i])]))))
    IN  IF t = "image/png" THEN <<".", "p", "n", "g">>
        ELSE IF t = "image/jpeg" THEN <<".", "j", "p", "g">>
        ELSE IF t = "image/gif" THEN <<".", "g", "i", "f">>
        ELSE IF t = "image/webp" THEN <<".", "w", "e", "b", "p">>
        ELSE IF t = "application/pdf" THEN <<".", "p", "d", "f">>
        ELSE IF t = "text/plain" THEN <<".", "t", "x", "t">>
        ELSE IF t = "application/zip" THEN <<".", "z", "i", "p">>
        ELSE <<>>

\* outPath + ext when filepath.Ext(outPath) is "": Ext looks at the last
\* element only.
AppendExt(els, ext) ==
    IF els # <<>> /\ Ext(els[Len(els)]) = <<>>
    THEN [els EXCEPT ![Len(els)] = @ \o ext]
    ELSE els

\* The path the download is written to, as its elements.
OutPath(dir, name, ct) == AppendExt(JoinPath(dir, name), extFromContentType(ct))

Chars2(a, b) == <<a, b>>

\* Attachment IDs: two plain ones, one that an --id value never names, one
\* that sanitizes to nothing, one with a path in it.
IdA1 == Chars2("a", "1")

IdA2 == Chars2("a", "2")

IdA3 == Chars2("a", "3")

IdDel == <<"DEL">>

IdPath == <<".", ".", "/", "x">>

\* URLs of attachments: whether url.Parse accepts it, and its path.
AttachmentURLs == {
    [ok |-> TRUE, path |-> <<"/", "f", "/", "r", ".", "p", "d", "f">>],
    [ok |-> TRUE, path |-> <<"/", "f", "/", "r">>],
    [ok |-> TRUE, path |-> <<>>],
    [ok |-> FALSE, path |-> <<>>] }

Attachment(id, title, u) == [id |-> id, title |-> title, url |-> u]

PlainURL == [ok |-> TRUE, path |-> <<"/", "f", "/", "r", ".", "p", "d", "f">>]

\* Answers of GetIssueAttachments that tell selections apart: up to three
\* attachments in the order of the API.
SelectionLists == {
    <<>>,
    <<Attachment(IdA1, <<"a">>, PlainURL)>>,
    <<Attachment(IdA2, <<"a">>, PlainURL), Attachment(IdA1, <<"a">>, PlainURL)>>,
    <<Attachment(IdA3, <<"a">>, PlainURL), Attachment(IdA1, <<"a">>, PlainURL),
      Attachment(IdA2, <<".", "a">>, PlainURL)>> }

\* Every title of at most MaxTitleLen characters.
Titles == UNION {[1..n -> TitleChars] : n \in 0..MaxTitleLen}

\* Answers with one attachment, of every title, ID and URL.
NamingLists ==
    {<<Attachment(id, t, u)>> : id \in {IdA1, IdDel, IdPath}, t \in Titles, u \in AttachmentURLs}

\* Values of --id.
IdFlags == {<<>>, <<IdA1>>, <<IdA1, IdA2>>, <<IdA2, IdA2>>, <<IdPath, IdDel>>}

\* Values of --dir.
TargetDirs == {<<".">>, <<"o", "u", "t">>, <<"a", "/", ".", ".", "/", "b">>}

\* The arguments of issue attachments download.
DownloadArgs == [issue : {"ENG-1"}, dir : TargetDirs, ids : IdFlags]

\* The issue identifiers the API may report.
Identifiers == {<<"E", "-", "1">>, <<".", ".", "/", "E">>}

\* What GetIssueAttachments may answer to a download: every selection list
\* with every --id value; the one-attachment lists without --id.
FetchedLists(ids) == IF ids = <<>> THEN SelectionLists \cup NamingLists ELSE SelectionLists

\* A variant of the selection that stops at the first attachment it finds.
SelectAttachments_first(attachments, ids) ==
    IF ids = <<>> THEN attachments
    ELSE LET S == {i \in DOMAIN attachments : \E k \in DOMAIN ids : ids[k] = attachments[i].id}
         IN  IF S = {} THEN <<>>
             ELSE <<attachments[CHOOSE i \in S : \A j \in S : i <= j]>>

\* selected: every attachment without --id, else those whose ID is wanted, in
\* the order fetched.
RECURSIVE SelectAttachments(_, _)
SelectAttachments(attachments, ids) ==
    IF ids = <<>> THEN attachments
    ELSE IF attachments = <<>> THEN <<>>
    ELSE (IF \E k \in DOMAIN ids : ids[k] = Head(attachments).id
          THEN <<Head(attachments)>> ELSE <<>>)
         \o SelectAttachments(Tail(attachments), ids)

\* download: GetIssueAttachments, the selection, and the test for an empty one.
DownloadFetch ==
    /\ pc = "fetch"
    /\ \E ok \in BOOLEAN, atts \in FetchedLists(flags.ids), ident \in Identifiers :
        /\ apiCalls' = Append(apiCalls, Call("GetIssueAttachments", flags.issue, ok))
        /\ IF ~ok THEN Fail("Failed to get attachments") /\ UNCHANGED local
           ELSE \E sel \in {SelectAttachments(atts, flags.ids)} :
                /\ local' = [authHeader |-> local.authHeader, identifier |-> ident,
                             attachments |-> atts, selected |-> sel, downloaded |-> <<>>]
                /\ IF flags.ids # <<>> /\ sel = <<>>
                   THEN Fail("No matching attachments found")
                   ELSE pc' = "mkdir" /\ UNCHANGED <<exitCode, errMsg>>
    /\ UNCHANGED disk
    /\ CmdFrame

\* download: os.MkdirAll(targetDir, 0o755).
DownloadMkdir ==
    /\ pc = "mkdir"
    /\ \E ok \in BOOLEAN :
        IF ok
        THEN /\ disk' = disk \cup {[kind |-> "dir", path |-> CleanElements(Elements(flags.dir), <<>>)]}
             /\ pc' = "download" /\ UNCHANGED <<exitCode, errMsg>>
        ELSE Fail("Failed to create directory") /\ UNCHANGED disk
    /\ UNCHANGED <<apiCalls, local>>
    /\ CmdFrame

\* downloadAttachment: the error, whether the GET was sent, whether the file
\* was created, and its path.
downloadAttachment(dir, identifier, att, sendOk, status, ct, createOk, copyOk) ==
    IF ~att.url.ok THEN [err |-> "parse", sent |-> FALSE, created |-> FALSE, path |-> <<>>]
    ELSE IF ~sendOk THEN [err |-> "send", sent |-> TRUE, created |-> FALSE, path |-> <<>>]
    ELSE IF StatusFailed(status)
         THEN [err |-> "GET failed", sent |-> TRUE, created |-> FALSE, path |-> <<>>]
    ELSE IF ~createOk THEN [err |-> "create", sent |-> TRUE, created |-> FALSE, path |-> <<>>]
    ELSE [err |-> IF copyOk THEN "" ELSE "copy", sent |-> TRUE, created |-> TRUE,
          path |-> OutPath(dir, DownloadName(identifier, att), ct)]

\* What the network and the disk may do to one download: the request gets no
\* response; or it gets one, and with a 2xx status the file is created or
\* not and the copy ends well or not.
DownloadOutcomes ==
    {[sendOk |-> FALSE, status |-> 200, ct |-> <<>>, createOk |-> TRUE, copyOk |-> TRUE]}
    \cup {[sendOk |-> TRUE, status |-> st, ct |-> <<>>, createOk |-> TRUE, copyOk |-> TRUE] :
            st \in {st \in HttpStatuses : StatusFailed(st)}}
    \cup {[sendOk |-> TRUE, status |-> st, ct |-> ct, createOk |-> c, copyOk |-> c \/ d] :
            st \in {st \in HttpStatuses : ~StatusFailed(st)}, ct \in ContentTypes,
            c \in BOOLEAN, d \in BOOLEAN}

\* download: one round of the loop over selected, or the end of the loop.
DownloadOne ==
    /\ pc = "download"
    /\ IF Len(local.downloaded) = Len(local.selected)
       THEN /\ pc' = "done" /\ exitCode' = 0
            /\ UNCHANGED <<errMsg, apiCalls, local, disk>>
       ELSE \E att \in {local.selected[Len(local.downloaded) + 1]} :
            \E o \in DownloadOutcomes :
            \E sendOk \in {o.sendOk}, status \in {o.status} :
            \E r \in {downloadAttachment(flags.dir, local.identifier, att,
                                         sendOk, status, o.ct, o.createOk, o.copyOk)} :
                /\ apiCalls' =
                       IF r.sent
                       THEN Append(apiCalls,
                                HttpCall("GET", att.id, IF sendOk THEN status ELSE 0))
                       ELSE apiCalls
                /\ disk' = IF r.created
                           THEN disk \cup {[kind |-> "file", path |-> r.path]}
                           ELSE disk
                /\ IF r.err # ""
                   THEN Fail("Failed to download attachment") /\ UNCHANGED local
                   ELSE /\ local' = [local EXCEPT !.downloaded = Append(@, att.id)]
                        /\ UNCHANGED <<pc, exitCode, errMsg>>
    /\ CmdFrame

----------------------------------------------------------------------------
(* issue update and issue create.  A value of the mutation input is a     *)
(* string, a number or null.                                               *)

Str(x) == [str |-> x]

Num(n) == [num |-> n]

Nil == [nil |-> TRUE]

\* A flag of issue update: whether the command line set it, and its value.
Unset(default) == [changed |-> FALSE, value |-> default]

Set(v) == [changed |-> TRUE, value |-> v]

\* The arguments of issue update.
UpdateArgs ==
    [issue : {"ENG-1"},
     title : {Unset(""), Set("New title")},
     description : {Unset(""), Set("")},
     assignee : {Unset(""), Set("me"), Set("Me"), Set("unassigned"), Set(""),
                 Set("ann@x.io"), Set("Ann Lee")},
     state : {Unset(""), Set("done"), Set("In Progress"), Set("Nope")},
     priority : {Unset(-1), Set(0)},
     dueDate : {Unset(""), Set(""), Set("2024-12-31")},
     project : {Unset(""), Set("NONE"), Set("p-1")}]

\* The flags of issue update and the input field each one sets.
UpdateFlagFields ==
    [title |-> "title", description |-> "description", assignee |-> "assigneeId",
     state |-> "stateId", priority |-> "priority", dueDate |-> "dueDate",
     project |-> "projectId"]

User(id, name, email) == [id |-> id, name |-> name, email |-> email]

Ann == User("u-ann", "Ann Lee", "ann@x.io")

\* A user whose name is the e-mail address of another.
Alias == User("u-alias", "ann@x.io", "alias@x.io")

Bob == User("u-bob", "Bob", "bob@x.io")

UsersPageSize == 100

\* The users of the workspace, in the order of the API; in the last one Ann
\* comes after a full page of others.
Workspaces == {
    <<>>,
    <<Bob>>,
    <<Bob, Ann, Alias>>,
    <<Bob, Alias, Ann>>,
    [i \in 1..(UsersPageSize + 1) |-> IF i = UsersPageSize + 1 THEN Ann ELSE Bob] }

\* users(first: $first): the first page.
FirstPage(users, first) ==
    IF Len(users) > first THEN SubSeq(users, 1, first) ELSE users

\* A variant of the user search that compares e-mail addresses only.
FindUser_emailonly(users, assignee) ==
    LET S == {i \in DOMAIN users : users[i].email = assignee}
    IN  IF S = {} THEN [found |-> FALSE, id |-> ""]
        ELSE [found |-> TRUE, id |-> users[CHOOSE i \in S : \A j \in S : i <= j].id]

\* The loop over users.Nodes: the first user whose e-mail or name is the
\* value.
FindUser(users, assignee) ==
    LET S == {i \in DOMAIN users : users[i].email = assignee \/ users[i].name = assignee}
    IN  IF S = {} THEN [found |-> FALSE, id |-> ""]
        ELSE [found |-> TRUE, id |-> users[CHOOSE i \in S : \A j \in S : i <= j].id]

\* Unicode case folding on the names of the model.
Fold(name) ==
    IF name \in {"Done", "DONE", "done"} THEN "done"
    ELSE IF name \in {"In Progress", "in progress"} THEN "in progress"
    ELSE IF name \in {"none", "None", "NONE"} THEN "none"
    ELSE IF name = "Todo" THEN "todo"
    ELSE IF name = "Nope" THEN "nope"
    ELSE name

EqualFold(a, b) == Fold(a) = Fold(b)

WorkflowState(id, name) == [id |-> id, name |-> name]

\* The workflow states of the issue's team, as GetTeamStates returns them.
TeamStates == {
    <<>>,
    <<WorkflowState("s-todo", "Todo"), WorkflowState("s-done", "Done"),
      WorkflowState("s-done2", "DONE")>>,
    <<WorkflowState("s-prog", "in progress"), WorkflowState("s-todo", "Todo")>> }

\* The team of the issue, as GetIssue reports it.
IssueTeams == {"ENG", "OPS"}

\* A variant of the state search that compares the names exactly.
FindState_exact(states, stateName) ==
    LET S == {i \in DOMAIN states : states[i].name = stateName}
    IN  IF S = {} THEN "" ELSE states[CHOOSE i \in S : \A j \in S : i <= j].id

\* The loop over states: the ID of the first state whose name folds to the
\* same as the value, "" when there is none.
FindState(states, stateName) ==
    LET S == {i \in DOMAIN states : EqualFold(states[i].name, stateName)}
    IN  IF S = {} THEN "" ELSE states[CHOOSE i \in S : \A j \in S : i <= j].id

\* The names of the states, for the error message.
StateNamesOf(states) == [i \in DOMAIN states |-> states[i].name]

\* update: the title and the description.
UpdateFields ==
    /\ pc = "fields"
    /\ local' = [authHeader |-> local.authHeader, users |-> <<>>, team |-> "",
                 states |-> <<>>, available |-> <<>>,
                 input |->
                     (IF flags.description.changed
                      THEN Put(IF flags.title.changed
                               THEN Put(EmptyMap, "title", Str(flags.title.value))
                               ELSE EmptyMap,
                               "description", Str(flags.description.value))
                      ELSE IF flags.title.changed
                           THEN Put(EmptyMap, "title", Str(flags.title.value))
                           ELSE EmptyMap)]
    /\ pc' = "assignee"
    /\ UNCHANGED <<apiCalls, exitCode, errMsg, disk>>
    /\ CmdFrame

\* update: the assignee.
UpdateAssignee ==
    /\ pc = "assignee"
    /\ IF ~flags.assignee.changed
       THEN pc' = "state" /\ UNCHANGED <<apiCalls, local, exitCode, errMsg>>
       ELSE IF flags.assignee.value = "me"
       THEN \E ok \in BOOLEAN :
            /\ apiCalls' = Append(apiCalls, Call("GetViewer", "", ok))
            /\ IF ok
               THEN /\ local' = [local EXCEPT !.input = Put(@, "assigneeId", Str("u-viewer"))]
                    /\ pc' = "state" /\ UNCHANGED <<exitCode, errMsg>>
               ELSE Fail("Failed to get current user") /\ UNCHANGED local
       ELSE IF flags.assignee.value \in {"unassigned", ""}
       THEN /\ local' = [local EXCEPT !.input = Put(@, "assigneeId", Nil)]
            /\ pc' = "state" /\ UNCHANGED <<apiCalls, exitCode, errMsg>>
       ELSE \E ok \in BOOLEAN, users \in Workspaces :
            /\ apiCalls' = Append(apiCalls, Call("GetUsers", UsersPageSize, ok))
            /\ IF ~ok THEN Fail("Failed to get users") /\ UNCHANGED local
               ELSE \E r \in {FindUser(FirstPage(users, UsersPageSize), flags.assignee.value)} :
                    IF r.found
                    THEN /\ local' = [local EXCEPT !.input = Put(@, "assigneeId", Str(r.id)),
                                                   !.users = users]
                         /\ pc' = "state" /\ UNCHANGED <<exitCode, errMsg>>
                    ELSE /\ Fail("User not found")
                         /\ local' = [local EXCEPT !.users = users]
    /\ UNCHANGED disk
    /\ CmdFrame

\* update: the state, looked up among the states of the issue's team.
UpdateState ==
    /\ pc = "state"
    /\ IF ~flags.state.changed
       THEN pc' = "rest" /\ UNCHANGED <<apiCalls, local, exitCode, errMsg>>
       ELSE \E issueOk \in BOOLEAN, statesOk \in BOOLEAN, states \in TeamStates,
               team \in IssueTeams :
            IF ~issueOk
            THEN /\ apiCalls' = Append(apiCalls, Call("GetIssue", flags.issue, FALSE))
                 /\ Fail("Failed to get issue") /\ UNCHANGED local
            ELSE IF ~statesOk
            THEN /\ apiCalls' = apiCalls \o <<Call("GetIssue", flags.issue, TRUE),
                                              Call("GetTeamStates", team, FALSE)>>
                 /\ Fail("Failed to get team states") /\ UNCHANGED local
            ELSE \E id \in {FindState(states, flags.state.value)} :
                 /\ apiCalls' = apiCalls \o <<Call("GetIssue", flags.issue, TRUE),
                                              Call("GetTeamStates", team, TRUE)>>
                 /\ IF id = ""
                    THEN /\ Fail("State not found")
                         /\ local' = [local EXCEPT !.team = team, !.states = states,
                                                   !.available = StateNamesOf(states)]
                    ELSE /\ local' = [local EXCEPT !.input = Put(@, "stateId", Str(id)),
                                                   !.team = team, !.states = states]
                         /\ pc' = "rest" /\ UNCHANGED <<exitCode, errMsg>>
    /\ UNCHANGED disk
    /\ CmdFrame

\* A variant that sends the priority whether the flag was set or not.
WithPriority_always(input, fl) == Put(input, "priority", Num(fl.priority.value))

\* The priority, the due date and the project of an update.
WithPriority(input, fl) ==
    IF fl.priority.changed THEN Put(input, "priority", Num(fl.priority.value)) ELSE input

WithDueDate(input, fl) ==
    IF ~fl.dueDate.changed THEN input
    ELSE IF fl.dueDate.value = "" THEN Put(input, "dueDate", Nil)
    ELSE Put(input, "dueDate", Str(fl.dueDate.value))

WithProject(input, fl) ==
    IF ~fl.project.changed THEN input
    ELSE IF fl.project.value = "" \/ EqualFold(fl.project.value, "none")
         THEN Put(input, "projectId", Nil)
    ELSE Put(input, "projectId", Str(fl.project.value))

\* update: priority, due date and project, then the test for an empty input.
UpdateRest ==
    /\ pc = "rest"
    /\ \E input \in {WithProject(WithDueDate(WithPriority(local.input, flags), flags), flags)} :
        /\ local' = [local EXCEPT !.input = input]
        /\ IF DOMAIN input = {}
           THEN Fail("No updates specified")
           ELSE pc' = "send" /\ UNCHANGED <<exitCode, errMsg>>
    /\ UNCHANGED <<apiCalls, disk>>
    /\ CmdFrame

\* update: client.UpdateIssue(ctx, args[0], input).
UpdateSend ==
    /\ pc = "send" /\ cmdName = "issue update"
    /\ \E ok \in BOOLEAN :
        /\ apiCalls' = Append(apiCalls,
               [op |-> "UpdateIssue", arg |-> flags.issue, ok |-> ok, input |-> local.input])
        /\ IF ok THEN pc' = "done" /\ exitCode' = 0 /\ UNCHANGED errMsg
           ELSE Fail("Failed to update issue")
    /\ UNCHANGED <<local, disk>>
    /\ CmdFrame

\* The arguments of issue create; cobra rejects a command line without
\* --title or --team before the command runs, which sends nothing either.
CreateArgs ==
    [title : {"", "Crash on save"}, description : {"", "Steps"}, team : {"", "ENG"},
     priority : {-1, 0, 3, 4, 5}, assignMe : BOOLEAN]

\* A variant that rejects nothing: every priority goes into the input.
CreatePriority_any(input, priority) == Put(input, "priority", Num(priority))

\* create: the priority goes into the input when it is one of 0..4.
CreatePriority(input, priority) ==
    IF priority >= 0 /\ priority <= 4 THEN Put(input, "priority", Num(priority)) ELSE input

CreateDescription(input, description) ==
    IF description # "" THEN Put(input, "description", Str(description)) ELSE input

\* create: the tests for a title and a team key.
CreateValidate ==
    /\ pc = "validate"
    /\ IF flags.title = "" THEN Fail("Title is required")
       ELSE IF flags.team = "" THEN Fail("Team is required")
       ELSE pc' = "team" /\ UNCHANGED <<exitCode, errMsg>>
    /\ UNCHANGED <<apiCalls, local, disk>>
    /\ CmdFrame

\* create: client.GetTeam, then title, teamId, description and priority.
CreateGetTeam ==
    /\ pc = "team"
    /\ \E ok \in BOOLEAN :
        /\ apiCalls' = Append(apiCalls, Call("GetTeam", flags.team, ok))
        /\ IF ok
           THEN /\ local' = [authHeader |-> local.authHeader,
                             input |-> CreatePriority(
                                 CreateDescription(
                                     Put(Put(EmptyMap, "title", Str(flags.title)),
                                         "teamId", Str(TeamID(flags.team))),
                                     flags.description),
                                 flags.priority)]
                /\ pc' = "viewer" /\ UNCHANGED <<exitCode, errMsg>>
           ELSE Fail("Failed to find team") /\ UNCHANGED local
    /\ UNCHANGED disk
    /\ CmdFrame

\* create: --assign-me asks for the viewer.
CreateAssignMe ==
    /\ pc = "viewer"
    /\ IF ~flags.assignMe
       THEN pc' = "send" /\ UNCHANGED <<apiCalls, local, exitCode, errMsg>>
       ELSE \E ok \in BOOLEAN :
            /\ apiCalls' = Append(apiCalls, Call("GetViewer", "", ok))
            /\ IF ok
               THEN /\ local' = [local EXCEPT !.input = Put(@, "assigneeId", Str("u-viewer"))]
                    /\ pc' = "send" /\ UNCHANGED <<exitCode, errMsg>>
               ELSE Fail("Failed to get current user") /\ UNCHANGED local
    /\ UNCHANGED disk
    /\ CmdFrame

\* create: client.CreateIssue(ctx, input).
CreateSend ==
    /\ pc = "send" /\ cmdName = "issue create"
    /\ \E ok \in BOOLEAN :
        /\ apiCalls' = Append(apiCalls,
               [op |-> "CreateIssue", arg |-> "", ok |-> ok, input |-> local.input])
        /\ IF ok THEN pc' = "done" /\ exitCode' = 0 /\ UNCHANGED errMsg
           ELSE Fail("Failed to create issue")
    /\ UNCHANGED <<local, disk>>
    /\ CmdFrame

ArgsOf(c) ==
    IF c = "attachments upload" THEN UploadArgs
    ELSE IF c = "attachments download" THEN DownloadArgs
    ELSE IF c = "issue update" THEN UpdateArgs
    ELSE CreateArgs

\* The shell starts a write command.
CmdInvoke ==
    /\ pc = "idle"
    /\ \E c \in WriteCommands : \E a \in ArgsOf(c) :
        /\ cmdName' = c
        /\ flags' = a
        /\ pc' = "auth"
        /\ local' = [authHeader |-> ""]
    /\ UNCHANGED <<now, filter, orderBy, apiCalls, exitCode, errMsg, res>>
    /\ UNCHANGED <<apiKey, authVars, disk, concVars>>

CmdNext ==
    \/ CmdInvoke
    \/ CmdGetAuthHeader
    \/ UploadStat
    \/ UploadResolveIssue
    \/ UploadFileUpload
    \/ UploadPutFile
    \/ UploadAttachmentCreate
    \/ DownloadFetch
    \/ DownloadMkdir
    \/ DownloadOne
    \/ UpdateFields
    \/ UpdateAssignee
    \/ UpdateState
    \/ UpdateRest
    \/ UpdateSend
    \/ CreateValidate
    \/ CreateGetTeam
    \/ CreateAssignMe
    \/ CreateSend
    \/ CmdTerminate

CmdSpec == Init /\ [][CmdNext]_vars

----------------------------------------------------------------------------
(* Properties of the write commands, under CmdSpec.                        *)

\* The operations of the requests sent so far, in order.
OpsOf(calls) == [i \in DOMAIN calls |-> calls[i].op]

\* The requests of an upload, in the order the command makes them.
UploadOps == <<"GetIssueAttachments", "FileUpload", "PUT", "AttachmentCreate">>

\* C24: an upload sends nothing before the path names a regular file, then
\* sends GetIssueAttachments, FileUpload, the PUT and AttachmentCreate in
\* that order, each only after every earlier one succeeded; AttachmentCreate
\* follows only a PUT answered with a 2xx status; the command ends well only
\* after all four succeeded, and a failure ends it with status 1 and nothing
\* sent after the step that failed.
C24_UploadStepsInOrder ==
    cmdName = "attachments upload" =>
        /\ Len(apiCalls) <= Len(UploadOps)
        /\ OpsOf(apiCalls) = SubSeq(UploadOps, 1, Len(apiCalls))
        /\ apiCalls # <<>> => flags.kind = "file"
        /\ \A i \in 1..(Len(apiCalls) - 1) : apiCalls[i].ok
        /\ \A i \in DOMAIN apiCalls :
               apiCalls[i].op = "AttachmentCreate" =>
                   /\ apiCalls[i - 1].op = "PUT"
                   /\ apiCalls[i - 1].status \in 200..299
        /\ pc = "done" =>
               /\ exitCode = 0
               /\ Len(apiCalls) = Len(UploadOps)
               /\ \A i \in DOMAIN apiCalls : apiCalls[i].ok
        /\ pc = "exit" =>
               /\ exitCode = 1
               /\ Len(apiCalls) = Len(UploadOps) => ~apiCalls[Len(apiCalls)].ok
        /\ errMsg = "Failed to upload file to Linear storage" =>
               Len(apiCalls) \in {2, 3}

\* The storage answered the PUT with 404: the upload ended with status 1 and
\* never created the attachment.
C24_Witness ==
    /\ cmdName = "attachments upload" /\ pc = "exit" /\ exitCode = 1
    /\ errMsg = "Failed to upload file to Linear storage"
    /\ Len(apiCalls) = 3
    /\ apiCalls[3].op = "PUT" /\ apiCalls[3].status = 404

\* The IDs of a list of attachments, in order.
IdsOf(atts) == [i \in DOMAIN atts |-> atts[i].id]

\* s is the beginning of t.
IsPrefix(s, t) == Len(s) <= Len(t) /\ s = SubSeq(t, 1, Len(s))

\* C25: once the attachments are fetched, a download without --id selects all
\* of them and one with --id selects exactly those whose ID is among the
\* values, in the order of the API; the downloads requested and completed
\* follow that selection in order, and all of it is downloaded when the
\* command ends well; when --id values are given and none matches, the
\* command ends with status 1 with no directory created and no download
\* requested.
C25_DownloadSelection ==
    (cmdName = "attachments download" /\ "selected" \in DOMAIN local) =>
        LET wanted(a) == \E k \in DOMAIN flags.ids : flags.ids[k] = a.id
            sel == IF flags.ids = <<>> THEN local.attachments
                   ELSE SelectSeq(local.attachments, wanted)
            isGet(c) == c.op = "GET"
        IN  /\ local.selected = sel
            /\ IsPrefix(local.downloaded, IdsOf(sel))
            /\ IsPrefix(IdsOf(SelectSeq([i \in DOMAIN apiCalls |-> [id |-> apiCalls[i].arg,
                                                                   op |-> apiCalls[i].op]],
                                        isGet)),
                        IdsOf(sel))
            /\ pc = "done" => local.downloaded = IdsOf(sel)
            /\ (flags.ids # <<>> /\ sel = <<>>) =>
                   /\ pc = "exit" /\ exitCode = 1
                   /\ errMsg = "No matching attachments found"
                   /\ disk = {}
                   /\ OpsOf(apiCalls) = <<"GetIssueAttachments">>

\* Two of three fetched attachments were asked for, in the other order, and
\* both were downloaded in the order of the API.
C25_Witness ==
    /\ cmdName = "attachments download" /\ pc = "done"
    /\ flags.ids = <<IdA1, IdA2>>
    /\ "selected" \in DOMAIN local
    /\ IdsOf(local.attachments) = <<IdA3, IdA1, IdA2>>
    /\ local.downloaded = <<IdA1, IdA2>>
    /\ Cardinality({f \in disk : f.kind = "file"}) = 2

\* The target directory of the download, cleaned, as its elements.
TargetPath == CleanElements(Elements(flags.dir), <<>>)

\* The files written so far.
FilesOn(d) == {f \in d : f.kind = "file"}

\* The GET requests that were answered with a 2xx status.
AnsweredGets == {i \in DOMAIN apiCalls : apiCalls[i].op = "GET" /\ apiCalls[i].ok}

\* C26: the file name downloadAttachment builds for any selected attachment
\* holds no path separator, and every file a download wrote is a direct
\* child of the cleaned target directory, under a name that is neither
\* empty nor "." nor ".."; a GET that was not answered with a 2xx status
\* wrote no file and ended the command with status 1.
C26_DownloadsStayInTargetDir ==
    cmdName = "attachments download" =>
        /\ "selected" \in DOMAIN local =>
               \A i \in DOMAIN local.selected :
                   Positions(DownloadName(local.identifier, local.selected[i]), "/")
                       \cup Positions(DownloadName(local.identifier, local.selected[i]), "\\")
                   = {}
        /\ \A f \in FilesOn(disk) :
               /\ Len(f.path) = Len(TargetPath) + 1
               /\ SubSeq(f.path, 1, Len(TargetPath)) = TargetPath
               /\ Positions(f.path[Len(f.path)], "/") = {}
               /\ f.path[Len(f.path)] \notin {<<>>, <<".">>, <<".", ".">>}
        /\ Cardinality(FilesOn(disk)) <= Cardinality(AnsweredGets)
        /\ \A i \in DOMAIN apiCalls :
               (apiCalls[i].op = "GET" /\ ~apiCalls[i].ok) =>
                   /\ i = Len(apiCalls)
                   /\ pc = "exit" /\ exitCode = 1

\* An attachment whose ID holds "../" and whose title holds a separator, of
\* an issue whose identifier holds "../", was written under the target
\* directory a/../b.
C26_Witness ==
    /\ cmdName = "attachments download" /\ pc = "done"
    /\ flags.dir = <<"a", "/", ".", ".", "/", "b">>
    /\ "selected" \in DOMAIN local
    /\ local.identifier = <<".", ".", "/", "E">>
    /\ Len(local.selected) = 1
    /\ local.selected[1].id = IdPath
    /\ Positions(local.selected[1].title, "/") # {}
    /\ \E f \in FilesOn(disk) : Len(f.path) = 2 /\ f.path[1] = <<"b">>

\* The UpdateIssue mutations sent so far.
Mutations == {i \in DOMAIN apiCalls : apiCalls[i].op = "UpdateIssue"}

\* The input fields of the flags the command line set.
SetFields == {UpdateFlagFields[f] : f \in {g \in DOMAIN UpdateFlagFields : flags[g].changed}}

\* What issue update reports when a set flag cannot be resolved.
ResolutionFailures ==
    {"Failed to get current user", "Failed to get users", "User not found",
     "Failed to get issue", "Failed to get team states", "State not found"}

\* C27: issue update sends at most one UpdateIssue mutation, as its last
\* request and after every lookup succeeded, and the fields of its input are
\* exactly those of the flags that were set; with no flag set an
\* authenticated command ends with 'No updates specified' and status 1; a
\* command that failed to resolve a flag has ended with status 1 and sent no
\* mutation; and the command ends well only after a mutation succeeded.
C27_UpdateAllOrNothing ==
    cmdName = "issue update" =>
        /\ Cardinality(Mutations) <= 1
        /\ \A i \in Mutations :
               /\ i = Len(apiCalls)
               /\ DOMAIN apiCalls[i].input = SetFields
               /\ \A j \in 1..(i - 1) : apiCalls[j].ok
        /\ SetFields = {} =>
               /\ Mutations = {}
               /\ pc # "done"
               /\ (pc = "exit" /\ errMsg # "Not authenticated") =>
                      errMsg = "No updates specified" /\ exitCode = 1
        /\ errMsg = "No updates specified" => SetFields = {} /\ apiCalls = <<>>
        /\ errMsg \in ResolutionFailures =>
               pc = "exit" /\ exitCode = 1 /\ Mutations = {}
        /\ \A i \in DOMAIN apiCalls :
               ~apiCalls[i].ok => i = Len(apiCalls) /\ pc = "exit" /\ exitCode = 1
        /\ pc = "done" => Mutations # {} /\ apiCalls[Len(apiCalls)].ok

\* A title, the assignee 'me' and a state were set and resolved, and one
\* mutation carried exactly those three fields.
C27_Witness ==
    /\ cmdName = "issue update" /\ pc = "done"
    /\ SetFields = {"title", "assigneeId", "stateId"}
    /\ flags.assignee.value = "me"
    /\ OpsOf(apiCalls) = <<"GetViewer", "GetIssue", "GetTeamStates", "UpdateIssue">>
    /\ DOMAIN apiCalls[4].input = {"title", "assigneeId", "stateId"}

\* The positions, among the first 100 users of the answer, of those whose
\* e-mail address or name is the value of --assignee.
MatchingUsers ==
    {i \in DOMAIN local.users :
        /\ i <= 100
        /\ local.users[i].email = flags.assignee.value
           \/ local.users[i].name = flags.assignee.value}

\* The request op was sent and succeeded.
Succeeded(op) == \E i \in DOMAIN apiCalls : apiCalls[i].op = op /\ apiCalls[i].ok

\* C28: when --assignee is set, the input gets assigneeId before the command
\* goes on: for 'me' the ID of the viewer, after a successful viewer query;
\* for 'unassigned' or the empty string null, with no lookup; for any other
\* value the ID of the first of the first 100 users whose e-mail address or
\* name is the value, and the command fails with 'User not found' exactly
\* when the users were fetched and none of the first 100 is such a user.
C28_AssigneeResolution ==
    (cmdName = "issue update" /\ "input" \in DOMAIN local /\ flags.assignee.changed) =>
        LET v == flags.assignee.value
            has == "assigneeId" \in DOMAIN local.input
        IN  /\ pc \in {"state", "rest", "send", "done"} => has
            /\ v = "me" =>
                   /\ has => local.input["assigneeId"] = Str("u-viewer") /\ Succeeded("GetViewer")
                   /\ ~Succeeded("GetUsers")
            /\ v \in {"unassigned", ""} =>
                   /\ has => local.input["assigneeId"] = Nil
                   /\ \A i \in DOMAIN apiCalls : apiCalls[i].op \notin {"GetViewer", "GetUsers"}
            /\ v \notin {"me", "unassigned", ""} =>
                   /\ has =>
                          /\ MatchingUsers # {}
                          /\ local.input["assigneeId"] =
                                 Str(local.users[CHOOSE i \in MatchingUsers :
                                                    \A j \in MatchingUsers : i <= j].id)
                   /\ errMsg = "User not found" <=> (Succeeded("GetUsers") /\ MatchingUsers = {})
                   /\ errMsg = "User not found" => pc = "exit" /\ exitCode = 1 /\ ~has
                   /\ \A i \in DOMAIN apiCalls :
                          /\ apiCalls[i].op # "GetViewer"
                          /\ apiCalls[i].op = "GetUsers" => apiCalls[i].arg = 100

\* The value is the name of one user and the e-mail address of a later one:
\* the issue went to the first.
C28_Witness ==
    /\ cmdName = "issue update" /\ pc = "done"
    /\ flags.assignee = Set("ann@x.io")
    /\ "input" \in DOMAIN local
    /\ local.users = <<Bob, Alias, Ann>>
    /\ apiCalls[Len(apiCalls)].op = "UpdateIssue"
    /\ apiCalls[Len(apiCalls)].input["assigneeId"] = Str("u-alias")

\* The positions of the fetched workflow states whose name is the value of
\* --state up to the case of its letters.
MatchingStates ==
    {i \in DOMAIN local.states : Fold(local.states[i].name) = Fold(flags.state.value)}

\* C29: when --state is set, the states are asked of the team GetIssue
\* reported for the issue, and the input gets as stateId the ID of the first
\* of them whose name is the value up to case; the command fails with
\* 'State not found' exactly when the states were fetched and none has that
\* name, and then it has listed the names of all of them, ended with status
\* 1 and sent no mutation.
C29_StateResolution ==
    (cmdName = "issue update" /\ "input" \in DOMAIN local /\ flags.state.changed) =>
        /\ \A i \in DOMAIN apiCalls :
               apiCalls[i].op = "GetTeamStates" =>
                   /\ i > 1 /\ apiCalls[i - 1].op = "GetIssue" /\ apiCalls[i - 1].ok
                   /\ apiCalls[i - 1].arg = flags.issue
                   /\ apiCalls[i].ok => apiCalls[i].arg = local.team
        /\ pc \in {"rest", "send", "done"} =>
               /\ Succeeded("GetTeamStates")
               /\ MatchingStates # {}
               /\ "stateId" \in DOMAIN local.input
               /\ local.input["stateId"] =
                      Str(local.states[CHOOSE i \in MatchingStates :
                                          \A j \in MatchingStates : i <= j].id)
        /\ errMsg = "State not found" <=> (Succeeded("GetTeamStates") /\ MatchingStates = {})
        /\ errMsg = "State not found" =>
               /\ pc = "exit" /\ exitCode = 1
               /\ local.available = [i \in DOMAIN local.states |-> local.states[i].name]
               /\ Mutations = {}

\* --state done met the states Todo, Done and DONE: the issue went to Done.
C29_Witness ==
    /\ cmdName = "issue update" /\ pc = "done"
    /\ flags.state = Set("done")
    /\ "input" \in DOMAIN local
    /\ Len(local.states) = 3
    /\ local.states[2].name = "Done" /\ local.states[3].name = "DONE"
    /\ apiCalls[Len(apiCalls)].op = "UpdateIssue"
    /\ apiCalls[Len(apiCalls)].input["stateId"] = Str(local.states[2].id)

\* The CreateIssue mutations sent so far.
Creations == {i \in DOMAIN apiCalls : apiCalls[i].op = "CreateIssue"}

====
